---- MODULE Spec2Model ----
(***************************************************************************)
(* Model of src/main/ipc/models.ts: the workspace handlers (get, set,      *)
(* select, readFile, readBinaryFile) and the model catalog (models:list,   *)
(* the two Ollama discovery caches and their refresh handlers).            *)
(*                                                                         *)
(* Strings the code inspects character by character (paths, model names)   *)
(* are sequences of one-character strings.  JavaScript values that may be  *)
(* null or undefined are tagged records (Str, Null, Undefined).            *)
(***************************************************************************)
EXTENDS Integers, Sequences, FiniteSets, TLC

VARIABLES
    threads,                     \* thread store: threadId -> row or NoThread
    settings,                    \* settings store, key workspacePath
    watchers,                    \* workspace watcher: threadId -> roots under watch
    ollamaModelsCache,           \* cloud discovery cache
    ollamaModelsCacheTime,
    ollamaLocalModelsCache,      \* local discovery cache
    ollamaLocalModelsCacheTime,
    apiKeys,                     \* credential store: providers with a key
    now,                         \* Date.now()
    lastFetch,                   \* history: per source, its latest network fetch
    request,                     \* the read, snapshot or classification request handled
    pending,                     \* handler calls in flight: slot -> where the call waits
    last                         \* history: the latest handler call and its outcome

wsVars == <<threads, settings, watchers, request, pending>>

catVars == <<ollamaModelsCache, ollamaModelsCacheTime, ollamaLocalModelsCache,
             ollamaLocalModelsCacheTime, apiKeys, now, lastFetch>>

vars == <<threads, settings, watchers, request, pending, ollamaModelsCache, ollamaModelsCacheTime,
          ollamaLocalModelsCache, ollamaLocalModelsCacheTime, apiKeys, now, lastFetch,
          last>>

(***************************************************************************)
(* JavaScript values                                                       *)
(***************************************************************************)
Null == [kind |-> "null"]

Undefined == [kind |-> "undefined"]

Str(s) == [kind |-> "string", chars |-> s]

\* JavaScript truthiness of a string | null | undefined value: `!v`, `v || x`
Truthy(v) == v.kind = "string" /\ v.chars # <<>>

\* String.prototype.startsWith
StartsWith(s, prefix) ==
    /\ Len(prefix) <= Len(s)
    /\ SubSeq(s, 1, Len(prefix)) = prefix

\* String.prototype.endsWith
EndsWith(s, suffix) ==
    /\ Len(suffix) <= Len(s)
    /\ SubSeq(s, Len(s) - Len(suffix) + 1, Len(s)) = suffix

\* String.prototype.split with a one-character separator
RECURSIVE SplitOn(_, _)
SplitOn(s, sep) ==
    IF \A i \in 1..Len(s) : s[i] # sep
    THEN <<s>>
    ELSE LET i == CHOOSE k \in 1..Len(s) :
                      s[k] = sep /\ \A j \in 1..(k - 1) : s[j] # sep
         IN  <<SubSeq(s, 1, i - 1)>> \o SplitOn(SubSeq(s, i + 1, Len(s)), sep)

\* Array.prototype.join with a one-character separator
RECURSIVE JoinWith(_, _)
JoinWith(parts, sep) ==
    IF parts = <<>> THEN <<>>
    ELSE IF Len(parts) = 1 THEN parts[1]
    ELSE parts[1] \o <<sep>> \o JoinWith(Tail(parts), sep)

(***************************************************************************)
(* POSIX path.join / path.resolve as called by the read handlers           *)
(***************************************************************************)
Slash == "/"

DotSeg == <<".">>

DotDotSeg == <<".", ".">>

\* the segment walk of path.normalize: drops empty and `.` segments, lets a
\* `..` pop the previous segment, and drops a `..` at the root of an
\* absolute path (allowAboveRoot = FALSE)
RECURSIVE NormalizeSegments(_, _, _)
NormalizeSegments(segs, acc, allowAboveRoot) ==
    IF segs = <<>> THEN acc
    ELSE LET h == Head(segs)
             t == Tail(segs)
         IN  IF h = <<>> \/ h = DotSeg
             THEN NormalizeSegments(t, acc, allowAboveRoot)
             ELSE IF h = DotDotSeg
             THEN IF acc # <<>> /\ acc[Len(acc)] # DotDotSeg
                  THEN NormalizeSegments(t, SubSeq(acc, 1, Len(acc) - 1), allowAboveRoot)
                  ELSE IF allowAboveRoot
                  THEN NormalizeSegments(t, Append(acc, DotDotSeg), allowAboveRoot)
                  ELSE NormalizeSegments(t, acc, allowAboveRoot)
             ELSE NormalizeSegments(t, Append(acc, h), allowAboveRoot)

IsAbsolute(p) == p # <<>> /\ p[1] = Slash

\* path.normalize
PathNormalize(p) ==
    IF p = <<>> THEN DotSeg
    ELSE LET isAbs    == IsAbsolute(p)
             trailing == p[Len(p)] = Slash
             body     == JoinWith(NormalizeSegments(SplitOn(p, Slash), <<>>, ~isAbs), Slash)
         IN  IF body = <<>>
             THEN IF isAbs THEN <<Slash>>
                  ELSE IF trailing THEN <<".", Slash>> ELSE DotSeg
             ELSE (IF isAbs THEN <<Slash>> ELSE <<>>)
                  \o body \o (IF trailing THEN <<Slash>> ELSE <<>>)

\* path.join(a, b): the non-empty arguments joined by `/`, then normalized
PathJoin(a, b) ==
    IF a = <<>> /\ b = <<>> THEN DotSeg
    ELSE IF a = <<>> THEN PathNormalize(b)
    ELSE IF b = <<>> THEN PathNormalize(a)
    ELSE PathNormalize(a \o <<Slash>> \o b)

\* path.resolve(p) of an absolute path: normalized, no trailing slash
PathResolve(p) ==
    <<Slash>> \o JoinWith(NormalizeSegments(SplitOn(p, Slash), <<>>, FALSE), Slash)

(***************************************************************************)
(* Thread metadata store (../db) and JSON                                  *)
(***************************************************************************)
ThreadIds == {"t1", "t2"}

\* an optional threadId argument; the empty string stands for an omitted one
\* (both make `!threadId` true)
ThreadArgs == ThreadIds \cup {""}

\* getThread(id) of an id that has no row
NoThread == [kind |-> "nothread"]

\* stored metadata text; json is what the text denotes
JsonText(j) == [kind |-> "text", json |-> j]

Malformed == [t |-> "malformed"]

JsonNull == [t |-> "null"]

JsonObject(f) == [t |-> "object", fields |-> f]

\* JSON.parse: throws on malformed text, else yields the value
JSONparse(text) ==
    IF text.json = Malformed
    THEN [threw |-> TRUE]
    ELSE [threw |-> FALSE, value |-> text.json]

\* JSON.stringify of an object: keys with an undefined value are dropped
JSONstringify(obj) ==
    LET keep == {k \in DOMAIN obj.fields : obj.fields[k] # Undefined}
    IN  JsonText(JsonObject([k \in keep |-> obj.fields[k]]))

\* property read `value.key`: throws on null, undefined when the key is absent
GetProp(value, key) ==
    IF value.t # "object" THEN [threw |-> TRUE]
    ELSE [threw |-> FALSE,
          value |-> IF key \in DOMAIN value.fields THEN value.fields[key] ELSE Undefined]

\* the write is lost: the object keeps its old value for the key
SetProp_lost(value, key, v) ==
    IF value.t # "object" THEN [threw |-> TRUE]
    ELSE [threw |-> FALSE, value |-> value]

\* the object is rebuilt with the written key only
SetProp_fresh(value, key, v) ==
    IF value.t # "object" THEN [threw |-> TRUE]
    ELSE [threw |-> FALSE, value |-> JsonObject([k \in {key} |-> v])]

\* property write `value.key = v`: throws on null
SetProp(value, key, v) ==
    IF value.t # "object" THEN [threw |-> TRUE]
    ELSE [threw |-> FALSE,
          value |-> JsonObject([k \in (DOMAIN value.fields) \cup {key} |->
                                   IF k = key THEN v ELSE value.fields[k]])]

EmptyObject == JsonObject([k \in {} |-> Null])

\* getThread(threadId)
getThread(thr, threadId) == thr[threadId]

\* updateThread(threadId, { metadata })
updateThread(thr, threadId, metadata) ==
    [thr EXCEPT ![threadId] = [kind |-> "thread", metadata |-> metadata]]

\* `thread?.metadata` is truthy: the row exists and its metadata is not null
HasMetadata(thread) == thread # NoThread /\ thread.metadata # Null

(***************************************************************************)
(* Workspace watcher (../services/workspace-watcher)                       *)
(***************************************************************************)
\* the watches a thread has when it has none
NoWatch == <<>>

\* start that adds a watch and leaves the old one running
startWatching_leak(watch, threadId, path) ==
    [watch EXCEPT ![threadId] = Append(@, path)]

\* startWatching(threadId, path): stops any watch the thread has, then
\* watches path
startWatching(watch, threadId, path) == [watch EXCEPT ![threadId] = <<path>>]

\* stopWatching(threadId): no-op when the thread has no watch
stopWatching(watch, threadId) == [watch EXCEPT ![threadId] = NoWatch]

\* the watches of the thread a handler is called for; none when the call
\* names no thread
WatchedBy(watch, threadId) == IF threadId = "" THEN NoWatch ELSE watch[threadId]

\* a call of the handler into the thread store or the watcher, as logged in
\* the order made
UpdateThreadCall(threadId) == [call |-> "updateThread", threadId |-> threadId]

StartWatchingCall(threadId, path) ==
    [call |-> "startWatching", threadId |-> threadId, path |-> path]

StopWatchingCall(threadId) == [call |-> "stopWatching", threadId |-> threadId]

\* the watcher is started whatever the path
WatcherCall_alwaysStart(threadId, newPath) == StartWatchingCall(threadId, newPath)

\* `if (newPath) startWatching(...) else stopWatching(...)`
WatcherCall(threadId, newPath) ==
    IF Truthy(newPath)
    THEN StartWatchingCall(threadId, newPath)
    ELSE StopWatchingCall(threadId)

\* a stop call leaves the watch running
ApplyWatcherCall_keepOnStop(watch, c) ==
    IF c.call = "startWatching"
    THEN startWatching(watch, c.threadId, c.path)
    ELSE watch

\* the watch map after a watcher call
ApplyWatcherCall(watch, c) ==
    IF c.call = "startWatching"
    THEN startWatching(watch, c.threadId, c.path)
    ELSE stopWatching(watch, c.threadId)

(***************************************************************************)
(* workspace:get                                                           *)
(***************************************************************************)
\* a thread without a binding answers with the global fallback setting
WorkspaceGetResult_fallback(thr, sett, threadId) ==
    IF threadId = ""
    THEN [threw |-> FALSE, ret |-> sett]
    ELSE LET thread == getThread(thr, threadId) IN
         IF ~HasMetadata(thread)
         THEN [threw |-> FALSE, ret |-> sett]
         ELSE LET parsed == JSONparse(thread.metadata) IN
              IF parsed.threw THEN [threw |-> TRUE]
              ELSE LET wp == GetProp(parsed.value, "workspacePath") IN
                   IF wp.threw THEN [threw |-> TRUE]
                   ELSE [threw |-> FALSE,
                         ret |-> IF Truthy(wp.value) THEN wp.value ELSE sett]

\* the handler's outcome on a state: a returned value or a thrown fault
WorkspaceGetResult(thr, sett, threadId) ==
    IF threadId = ""
    THEN [threw |-> FALSE, ret |-> sett]
    ELSE LET thread == getThread(thr, threadId) IN
         IF ~HasMetadata(thread)
         THEN [threw |-> FALSE, ret |-> Null]
         ELSE LET parsed == JSONparse(thread.metadata) IN
              IF parsed.threw THEN [threw |-> TRUE]
              ELSE LET wp == GetProp(parsed.value, "workspacePath") IN
                   IF wp.threw THEN [threw |-> TRUE]
                   ELSE [threw |-> FALSE,
                         ret |-> IF Truthy(wp.value) THEN wp.value ELSE Null]

WorkspaceGet(threadId) ==
    /\ last' = [op |-> "workspace:get", threadId |-> threadId]
                   @@ WorkspaceGetResult(threads, settings, threadId)
    /\ UNCHANGED <<wsVars, catVars>>

(***************************************************************************)
(* workspace:set                                                           *)
(***************************************************************************)
\* metadata object the handlers start from: the parsed text, or {} when the
\* thread has no metadata
ParseOrEmpty(thread) ==
    IF HasMetadata(thread)
    THEN JSONparse(thread.metadata)
    ELSE [threw |-> FALSE, value |-> EmptyObject]

\* outcome and resulting stores of workspace:set
WorkspaceSetResult(thr, sett, watch, threadId, newPath) ==
    IF threadId = ""
    THEN [threw |-> FALSE, ret |-> newPath, threads |-> thr,
          settings |-> IF Truthy(newPath) THEN newPath ELSE Null,
          watchers |-> watch, calls |-> <<>>]
    ELSE LET thread == getThread(thr, threadId) IN
         IF thread = NoThread
         THEN [threw |-> FALSE, ret |-> Null, threads |-> thr,
               settings |-> sett, watchers |-> watch, calls |-> <<>>]
         ELSE LET parsed == ParseOrEmpty(thread) IN
              IF parsed.threw
              THEN [threw |-> TRUE, threads |-> thr, settings |-> sett, watchers |-> watch,
                    calls |-> <<>>]
              ELSE LET written == SetProp(parsed.value, "workspacePath", newPath) IN
                   IF written.threw
                   THEN [threw |-> TRUE, threads |-> thr, settings |-> sett,
                         watchers |-> watch, calls |-> <<>>]
                   ELSE LET watcherCall == WatcherCall(threadId, newPath) IN
                        [threw |-> FALSE, ret |-> newPath,
                         threads |-> updateThread(thr, threadId, JSONstringify(written.value)),
                         settings |-> sett,
                         watchers |-> ApplyWatcherCall(watch, watcherCall),
                         calls |-> <<UpdateThreadCall(threadId), watcherCall>>]

\* the handler's writes and its outcome
SetApplied(threadId, newPath) ==
    LET r == WorkspaceSetResult(threads, settings, watchers, threadId, newPath) IN
    /\ threads' = r.threads
    /\ settings' = r.settings
    /\ watchers' = r.watchers
    /\ last' = [op |-> "workspace:set", threadId |-> threadId, path |-> newPath,
                threw |-> r.threw, calls |-> r.calls,
                watched |-> WatchedBy(watchers, threadId)]
                   @@ (IF r.threw THEN [x \in {} |-> Null] ELSE [ret |-> r.ret])

WorkspaceSet(threadId, newPath) ==
    /\ SetApplied(threadId, newPath)
    /\ UNCHANGED <<request, pending, catVars>>

(***************************************************************************)
(* workspace:select                                                        *)
(***************************************************************************)
\* the picker was dismissed only when it says so
Cancelled_flagOnly(dialogResult) == dialogResult.canceled

\* `result.canceled || result.filePaths.length === 0`
Cancelled(dialogResult) ==
    dialogResult.canceled \/ Len(dialogResult.filePaths) = 0

\* `result.filePaths[0]`: undefined when the array is empty
FirstPath(filePaths) == IF Len(filePaths) = 0 THEN Undefined ELSE filePaths[1]

\* outcome and resulting stores of workspace:select for a dialog result
WorkspaceSelectResult(thr, sett, watch, threadId, dialogResult) ==
    IF Cancelled(dialogResult)
    THEN [threw |-> FALSE, ret |-> Null, threads |-> thr, settings |-> sett,
          watchers |-> watch, calls |-> <<>>]
    ELSE LET selectedPath == FirstPath(dialogResult.filePaths) IN
         IF threadId # ""
         THEN LET thread == getThread(thr, threadId) IN
              IF thread = NoThread
              THEN [threw |-> FALSE, ret |-> selectedPath, threads |-> thr,
                    settings |-> sett, watchers |-> watch, calls |-> <<>>]
              ELSE LET parsed == ParseOrEmpty(thread) IN
                   IF parsed.threw
                   THEN [threw |-> TRUE, threads |-> thr, settings |-> sett,
                         watchers |-> watch, calls |-> <<>>]
                   ELSE LET written == SetProp(parsed.value, "workspacePath", selectedPath) IN
                        IF written.threw
                        THEN [threw |-> TRUE, threads |-> thr, settings |-> sett,
                              watchers |-> watch, calls |-> <<>>]
                        ELSE LET watcherCall == StartWatchingCall(threadId, selectedPath) IN
                             [threw |-> FALSE, ret |-> selectedPath,
                              threads |-> updateThread(thr, threadId,
                                                       JSONstringify(written.value)),
                              settings |-> sett,
                              watchers |-> ApplyWatcherCall(watch, watcherCall),
                              calls |-> <<UpdateThreadCall(threadId), watcherCall>>]
         ELSE [threw |-> FALSE, ret |-> selectedPath, threads |-> thr,
               settings |-> selectedPath, watchers |-> watch, calls |-> <<>>]

\* the handler's writes and its outcome
SelectApplied(threadId, dialogResult) ==
    LET r == WorkspaceSelectResult(threads, settings, watchers, threadId, dialogResult) IN
    /\ threads' = r.threads
    /\ settings' = r.settings
    /\ watchers' = r.watchers
    /\ last' = [op |-> "workspace:select", threadId |-> threadId, dialog |-> dialogResult,
                threw |-> r.threw, calls |-> r.calls,
                watched |-> WatchedBy(watchers, threadId)]
                   @@ (IF r.threw THEN [x \in {} |-> Null] ELSE [ret |-> r.ret])

WorkspaceSelect(threadId, dialogResult) ==
    /\ SelectApplied(threadId, dialogResult)
    /\ UNCHANGED <<request, pending, catVars>>

(***************************************************************************)
(* workspace:readFile and workspace:readBinaryFile                         *)
(***************************************************************************)
NoWorkspaceError == "No workspace folder linked"

AccessDeniedError == "Access denied: path outside workspace"

IsDirectoryError == "Cannot read directory as file"

\* what fs.stat can answer for a path: a file, a directory, or a rejection
StatOutcomes == {"file", "directory", "ENOENT"}

\* what fs.readFile can answer: the content, or a rejection
ReadOutcomes == {"ok", "EACCES"}

\* the metadata is parsed whether or not the row and its metadata exist
ThreadWorkspacePath_unguarded(thr, threadId) ==
    LET thread == getThread(thr, threadId) IN
    IF ~HasMetadata(thread) THEN [threw |-> TRUE]
    ELSE LET parsed == JSONparse(thread.metadata) IN
         IF parsed.threw THEN [threw |-> TRUE]
         ELSE GetProp(parsed.value, "workspacePath")

\* the thread's metadata.workspacePath as the read handlers compute it
\* (outside their try block)
ThreadWorkspacePath(thr, threadId) ==
    LET thread == getThread(thr, threadId)
        parsed == ParseOrEmpty(thread)
    IN  IF parsed.threw THEN [threw |-> TRUE]
        ELSE GetProp(parsed.value, "workspacePath")

\* the handlers' containment check: TRUE when the read may proceed
SecurityCheck(workspacePath, fullPath) ==
    StartsWith(PathResolve(fullPath), PathResolve(workspacePath))

\* the virtual path with one leading `/` removed
RelativePath(filePath) ==
    IF StartsWith(filePath, <<Slash>>) THEN Tail(filePath) ELSE filePath

\* outcome of a read handler; encoding is "utf-8" (readFile) or "base64"
\* (readBinaryFile); fsOps lists the disk calls the handler made
ReadFileResult(thr, threadId, filePath, encoding, statOutcome, readOutcome) ==
    LET wp == ThreadWorkspacePath(thr, threadId) IN
    IF wp.threw THEN [threw |-> TRUE, fsOps |-> <<>>]
    ELSE IF ~Truthy(wp.value)
    THEN [threw |-> FALSE, fsOps |-> <<>>,
          ret |-> [success |-> FALSE, error |-> NoWorkspaceError]]
    ELSE LET workspacePath == wp.value.chars
             fullPath == PathJoin(workspacePath, RelativePath(filePath))
             statOp == [call |-> "stat", path |-> fullPath]
             readOp == [call |-> "readFile", path |-> fullPath]
         IN  IF ~SecurityCheck(workspacePath, fullPath)
             THEN [threw |-> FALSE, fsOps |-> <<>>,
                   ret |-> [success |-> FALSE, error |-> AccessDeniedError]]
             ELSE IF statOutcome = "ENOENT"
             THEN [threw |-> FALSE, fsOps |-> <<statOp>>,
                   ret |-> [success |-> FALSE, error |-> statOutcome]]
             ELSE IF statOutcome = "directory"
             THEN [threw |-> FALSE, fsOps |-> <<statOp>>,
                   ret |-> [success |-> FALSE, error |-> IsDirectoryError]]
             ELSE IF readOutcome # "ok"
             THEN [threw |-> FALSE, fsOps |-> <<statOp, readOp>>,
                   ret |-> [success |-> FALSE, error |-> readOutcome]]
             ELSE [threw |-> FALSE, fsOps |-> <<statOp, readOp>>,
                   ret |-> [success |-> TRUE,
                            content |-> [encoding |-> encoding, of |-> fullPath]]]

ReadHandler(op, encoding, threadId, filePath, statOutcome, readOutcome) ==
    LET r == ReadFileResult(threads, threadId, filePath, encoding, statOutcome, readOutcome) IN
    /\ last' = [op |-> op, threadId |-> threadId, filePath |-> filePath] @@ r
    /\ UNCHANGED <<wsVars, catVars>>

WorkspaceReadFile(threadId, filePath, statOutcome, readOutcome) ==
    ReadHandler("workspace:readFile", "utf-8", threadId, filePath, statOutcome, readOutcome)

WorkspaceReadBinaryFile(threadId, filePath, statOutcome, readOutcome) ==
    ReadHandler("workspace:readBinaryFile", "base64", threadId, filePath, statOutcome,
                readOutcome)

(***************************************************************************)
(* workspace:loadFromDisk                                                  *)
(***************************************************************************)
\* what the disk holds under a directory: each entry has a name, is a
\* directory or not, and says whether the disk call made on it (readdir of
\* a directory, stat of a file) succeeds; a directory lists its own entries
\* in the order readdir gives them
FileNode(name, ok) ==
    [name |-> name, isDirectory |-> FALSE, ok |-> ok, entries |-> <<>>]

DirNode(name, ok, entries) ==
    [name |-> name, isDirectory |-> TRUE, ok |-> ok, entries |-> entries]

NodeModulesName == <<"n", "o", "d", "e", "_", "m", "o", "d", "u", "l", "e", "s">>

\* only hidden entries are skipped
SkipEntry_hiddenOnly(name) == StartsWith(name, <<".">>)

\* `entry.name.startsWith('.') || entry.name === 'node_modules'`
SkipEntry(name) == StartsWith(name, <<".">>) \/ name = NodeModulesName

\* the entry's name alone, whatever directory it is in
RelPath_flat(relativePath, name) == name

\* `relativePath ? `${relativePath}/${entry.name}` : entry.name`
RelPath(relativePath, name) ==
    IF relativePath # <<>> THEN relativePath \o <<Slash>> \o name ELSE name

\* the entries pushed to `files`
DirEntry(relPath) == [path |-> <<Slash>> \o relPath, is_dir |-> TRUE]

FileEntry(relPath) ==
    [path |-> <<Slash>> \o relPath, is_dir |-> FALSE,
     size |-> "stat.size", modified_at |-> "stat.mtime"]

ReaddirOp(dirPath) == [call |-> "readdir", path |-> dirPath]

StatOp(fullPath) == [call |-> "stat", path |-> fullPath]

\* message of the error a failed readdir or stat rejects with
DiskError == "EIO"

\* a directory is pushed after the entries beneath it
RECURSIVE readDir_postOrder(_, _, _, _)
readDir_postOrder(entries, dirPath, relativePath, walk) ==
    IF walk.threw \/ entries = <<>> THEN walk
    ELSE LET entry == Head(entries)
             rest == Tail(entries)
         IN  IF SkipEntry(entry.name)
             THEN readDir_postOrder(rest, dirPath, relativePath, walk)
             ELSE LET fullPath == PathJoin(dirPath, entry.name)
                      relPath == RelPath(relativePath, entry.name)
                  IN  IF entry.isDirectory
                      THEN LET listed == [walk EXCEPT
                                            !.fsOps = Append(@, ReaddirOp(fullPath))]
                               inner == readDir_postOrder(entry.entries, fullPath, relPath,
                                                          listed)
                           IN  IF ~entry.ok
                               THEN [listed EXCEPT !.threw = TRUE]
                               ELSE IF inner.threw THEN inner
                               ELSE readDir_postOrder(rest, dirPath, relativePath,
                                        [inner EXCEPT
                                           !.files = Append(@, DirEntry(relPath))])
                      ELSE LET stated == [walk EXCEPT !.fsOps = Append(@, StatOp(fullPath))]
                           IN  IF ~entry.ok
                               THEN [stated EXCEPT !.threw = TRUE]
                               ELSE readDir_postOrder(rest, dirPath, relativePath,
                                        [stated EXCEPT
                                           !.files = Append(@, FileEntry(relPath))])

\* readDir's loop over the entries readdir(dirPath) gave; walk holds the
\* files pushed and the disk calls made so far, and whether a call rejected
RECURSIVE readDir(_, _, _, _)
readDir(entries, dirPath, relativePath, walk) ==
    IF walk.threw \/ entries = <<>> THEN walk
    ELSE LET entry == Head(entries)
             rest == Tail(entries)
         IN  IF SkipEntry(entry.name)
             THEN readDir(rest, dirPath, relativePath, walk)
             ELSE LET fullPath == PathJoin(dirPath, entry.name)
                      relPath == RelPath(relativePath, entry.name)
                  IN  IF entry.isDirectory
                      THEN LET pushed == [walk EXCEPT
                                            !.files = Append(@, DirEntry(relPath)),
                                            !.fsOps = Append(@, ReaddirOp(fullPath))]
                           IN  IF ~entry.ok
                               THEN [pushed EXCEPT !.threw = TRUE]
                               ELSE readDir(rest, dirPath, relativePath,
                                            readDir(entry.entries, fullPath, relPath, pushed))
                      ELSE LET stated == [walk EXCEPT !.fsOps = Append(@, StatOp(fullPath))]
                           IN  IF ~entry.ok
                               THEN [stated EXCEPT !.threw = TRUE]
                               ELSE readDir(rest, dirPath, relativePath,
                                            [stated EXCEPT
                                               !.files = Append(@, FileEntry(relPath))])

\* a failed walk returns the entries pushed before the failure
LoadFromDiskResult_partial(thr, threadId, disk) ==
    LET wp == ThreadWorkspacePath(thr, threadId) IN
    IF wp.threw THEN [threw |-> TRUE, fsOps |-> <<>>]
    ELSE IF ~Truthy(wp.value)
    THEN [threw |-> FALSE, fsOps |-> <<>>,
          ret |-> [success |-> FALSE, error |-> NoWorkspaceError, files |-> <<>>]]
    ELSE LET workspacePath == wp.value.chars
             start == [threw |-> ~disk.ok, files |-> <<>>,
                       fsOps |-> <<ReaddirOp(workspacePath)>>]
             walk == readDir(disk.entries, workspacePath, <<>>, start)
         IN  IF walk.threw
             THEN [threw |-> FALSE, fsOps |-> walk.fsOps,
                   ret |-> [success |-> FALSE, error |-> DiskError, files |-> walk.files]]
             ELSE [threw |-> FALSE, fsOps |-> walk.fsOps,
                   ret |-> [success |-> TRUE, files |-> walk.files,
                            workspacePath |-> wp.value]]

\* outcome of workspace:loadFromDisk when the disk under the bound root is
\* `disk`; fsOps lists the disk calls the handler made
LoadFromDiskResult(thr, threadId, disk) ==
    LET wp == ThreadWorkspacePath(thr, threadId) IN
    IF wp.threw THEN [threw |-> TRUE, fsOps |-> <<>>]
    ELSE IF ~Truthy(wp.value)
    THEN [threw |-> FALSE, fsOps |-> <<>>,
          ret |-> [success |-> FALSE, error |-> NoWorkspaceError, files |-> <<>>]]
    ELSE LET workspacePath == wp.value.chars
             start == [threw |-> ~disk.ok, files |-> <<>>,
                       fsOps |-> <<ReaddirOp(workspacePath)>>]
             walk == readDir(disk.entries, workspacePath, <<>>, start)
         IN  IF walk.threw
             THEN [threw |-> FALSE, fsOps |-> walk.fsOps,
                   ret |-> [success |-> FALSE, error |-> DiskError, files |-> <<>>]]
             ELSE [threw |-> FALSE, fsOps |-> walk.fsOps,
                   ret |-> [success |-> TRUE, files |-> walk.files,
                            workspacePath |-> wp.value]]

\* the walk ends by watching the root it walked
SnapshotWatchers_restart(watch, threadId, r) ==
    IF ~r.threw /\ r.ret.success
    THEN startWatching(watch, threadId, r.ret.workspacePath)
    ELSE watch

\* the watch map once the handler is done: it makes no watcher call
\* (`Don't start watching here`)
SnapshotWatchers(watch, threadId, r) == watch

WorkspaceLoadFromDisk(threadId, disk) ==
    LET r == LoadFromDiskResult(threads, threadId, disk) IN
    /\ watchers' = SnapshotWatchers(watchers, threadId, r)
    /\ last' = [op |-> "workspace:loadFromDisk", threadId |-> threadId] @@ r
    /\ UNCHANGED <<threads, settings, request, pending, catVars>>

(***************************************************************************)
(* Model catalog: static table                                             *)
(***************************************************************************)
\* a ModelConfig; name and description are display text no handler reads
ModelConfig(id, provider, mode) ==
    [id |-> id, provider |-> provider, model |-> id, available |-> TRUE, ollamaMode |-> mode]

OLLAMA_CACHE_TTL == 5 * 60 * 1000

AVAILABLE_MODELS ==
    <<      ModelConfig(<<"c", "l", "a", "u", "d", "e", "-", "o", "p", "u", "s", "-", "4", "-", "5", "-", "2", "0", "2", "5", "1", "1", "0", "1">>,
                  "anthropic", "undefined"),
      ModelConfig(<<"c", "l", "a", "u", "d", "e", "-", "s", "o", "n", "n", "e", "t", "-", "4", "-", "5", "-", "2", "0", "2", "5", "0", "9", "2", "9">>,
                  "anthropic", "undefined"),
      ModelConfig(<<"c", "l", "a", "u", "d", "e", "-", "h", "a", "i", "k", "u", "-", "4", "-", "5", "-", "2", "0", "2", "5", "1", "0", "0", "1">>,
                  "anthropic", "undefined"),
      ModelConfig(<<"c", "l", "a", "u", "d", "e", "-", "o", "p", "u", "s", "-", "4", "-", "1", "-", "2", "0", "2", "5", "0", "8", "0", "5">>,
                  "anthropic", "undefined"),
      ModelConfig(<<"c", "l", "a", "u", "d", "e", "-", "s", "o", "n", "n", "e", "t", "-", "4", "-", "2", "0", "2", "5", "0", "5", "1", "4">>,
                  "anthropic", "undefined"),
      ModelConfig(<<"g", "p", "t", "-", "5", ".", "2">>,
                  "openai", "undefined"),
      ModelConfig(<<"g", "p", "t", "-", "5", ".", "1">>,
                  "openai", "undefined"),
      ModelConfig(<<"o", "3">>,
                  "openai", "undefined"),
      ModelConfig(<<"o", "3", "-", "m", "i", "n", "i">>,
                  "openai", "undefined"),
      ModelConfig(<<"o", "4", "-", "m", "i", "n", "i">>,
                  "openai", "undefined"),
      ModelConfig(<<"o", "1">>,
                  "openai", "undefined"),
      ModelConfig(<<"g", "p", "t", "-", "4", ".", "1">>,
                  "openai", "undefined"),
      ModelConfig(<<"g", "p", "t", "-", "4", ".", "1", "-", "m", "i", "n", "i">>,
                  "openai", "undefined"),
      ModelConfig(<<"g", "p", "t", "-", "4", ".", "1", "-", "n", "a", "n", "o">>,
                  "openai", "undefined"),
      ModelConfig(<<"g", "p", "t", "-", "4", "o">>,
                  "openai", "undefined"),
      ModelConfig(<<"g", "p", "t", "-", "4", "o", "-", "m", "i", "n", "i">>,
                  "openai", "undefined"),
      ModelConfig(<<"g", "e", "m", "i", "n", "i", "-", "3", "-", "p", "r", "o", "-", "p", "r", "e", "v", "i", "e", "w">>,
                  "google", "undefined"),
      ModelConfig(<<"g", "e", "m", "i", "n", "i", "-", "2", ".", "5", "-", "p", "r", "o">>,
                  "google", "undefined"),
      ModelConfig(<<"g", "e", "m", "i", "n", "i", "-", "2", ".", "5", "-", "f", "l", "a", "s", "h">>,
                  "google", "undefined"),
      ModelConfig(<<"g", "e", "m", "i", "n", "i", "-", "2", ".", "5", "-", "f", "l", "a", "s", "h", "-", "l", "i", "t", "e">>,
                  "google", "undefined"),
      ModelConfig(<<"g", "p", "t", "-", "o", "s", "s", ":", "1", "2", "0", "b", "-", "c", "l", "o", "u", "d">>,
                  "ollama-cloud", "cloud"),
      ModelConfig(<<"g", "p", "t", "-", "o", "s", "s", ":", "2", "0", "b", "-", "c", "l", "o", "u", "d">>,
                  "ollama-cloud", "cloud"),
      ModelConfig(<<"q", "w", "e", "n", "3", "-", "c", "o", "d", "e", "r", ":", "4", "8", "0", "b", "-", "c", "l", "o", "u", "d">>,
                  "ollama-cloud", "cloud"),
      ModelConfig(<<"d", "e", "e", "p", "s", "e", "e", "k", "-", "v", "3", ".", "1", ":", "6", "7", "1", "b", "-", "c", "l", "o", "u", "d">>,
                  "ollama-cloud", "cloud"),
      ModelConfig(<<"q", "w", "e", "n", "3", "-", "v", "l", ":", "2", "3", "5", "b", "-", "c", "l", "o", "u", "d">>,
                  "ollama-cloud", "cloud") >>

(***************************************************************************)
(* supportsToolCalling                                                     *)
(***************************************************************************)
UpperLetters == <<"A", "B", "C", "D", "E", "F", "G", "H", "I", "J", "K", "L", "M",
                  "N", "O", "P", "Q", "R", "S", "T", "U", "V", "W", "X", "Y", "Z">>

LowerLetters == <<"a", "b", "c", "d", "e", "f", "g", "h", "i", "j", "k", "l", "m",
                  "n", "o", "p", "q", "r", "s", "t", "u", "v", "w", "x", "y", "z">>

\* String.prototype.toLowerCase
toLowerCase(s) ==
    [i \in 1..Len(s) |->
        IF \E k \in 1..26 : UpperLetters[k] = s[i]
        THEN LowerLetters[CHOOSE k \in 1..26 : UpperLetters[k] = s[i]]
        ELSE s[i]]

\* families matched with startsWith
ToolCallingPrefixes ==
    { <<"l", "l", "a", "m", "a", "3", ".", "1">>,
      <<"l", "l", "a", "m", "a", "3", ".", "2">>,
      <<"l", "l", "a", "m", "a", "3", ".", "3">>,
      <<"q", "w", "e", "n", "3">>,
      <<"q", "w", "e", "n", "2", ".", "5">>,
      <<"q", "w", "e", "n", "2">>,
      <<"q", "w", "q">>,
      <<"m", "i", "s", "t", "r", "a", "l", "-", "s", "m", "a", "l", "l">>,
      <<"m", "i", "s", "t", "r", "a", "l", "-", "n", "e", "m", "o">>,
      <<"m", "i", "n", "i", "s", "t", "r", "a", "l", "-", "3">>,
      <<"d", "e", "e", "p", "s", "e", "e", "k", "-", "r", "1">>,
      <<"g", "p", "t", "-", "o", "s", "s">>,
      <<"d", "e", "v", "s", "t", "r", "a", "l", "-", "s", "m", "a", "l", "l", "-", "2">>,
      <<"d", "e", "v", "s", "t", "r", "a", "l", "-", "2">>,
      <<"s", "m", "o", "l", "l", "m", "2">> }

\* families matched with ===
ToolCallingExact ==
    { <<"m", "i", "s", "t", "r", "a", "l">>,
      <<"f", "u", "n", "c", "t", "i", "o", "n", "g", "e", "m", "m", "a">> }

supportsToolCalling_caseSensitive(modelName) ==
    LET baseName == SplitOn(modelName, ":")[1] IN
    \/ baseName \in ToolCallingExact
    \/ \E p \in ToolCallingPrefixes : StartsWith(baseName, p)

supportsToolCalling(modelName) ==
    LET baseName == toLowerCase(SplitOn(modelName, ":")[1]) IN
    \/ baseName \in ToolCallingExact
    \/ \E p \in ToolCallingPrefixes : StartsWith(baseName, p)

(***************************************************************************)
(* Credential store (../storage)                                           *)
(***************************************************************************)
\* getApiKey(provider): the stored key, or undefined
getApiKey(keys, provider) ==
    IF provider \in keys THEN Str(<<"k">>) ELSE Undefined

\* hasApiKey(provider)
hasApiKey(keys, provider) == provider \in keys

(***************************************************************************)
(* Discovery: what the two servers can answer                              *)
(***************************************************************************)
Gemini3ProPreview ==
    <<"g", "e", "m", "i", "n", "i", "-", "3", "-", "p", "r", "o", "-",
      "p", "r", "e", "v", "i", "e", "w">>

GptOss20b == <<"g", "p", "t", "-", "o", "s", "s", ":", "2", "0", "b">>

Gemma2 == <<"g", "e", "m", "m", "a", "2", ":", "9", "b">>

Qwen3Cloud == <<"q", "w", "e", "n", "3", ":", "c", "l", "o", "u", "d">>

CloudSuffix == <<":", "c", "l", "o", "u", "d">>

\* sequences over S of length at most n
SeqsUpTo(S, n) == UNION {[1..k -> S] : k \in 0..n}

Llama32 == <<"l", "l", "a", "m", "a", "3", ".", "2", ":", "3", "b">>

\* entries of a cloud response body: OpenAI style (id), native style
\* (name and model), and an entry carrying no identifier at all
CloudItemById(id) == [id |-> Str(id), name |-> Undefined, model |-> Undefined]

CloudItemByName(name) == [id |-> Undefined, name |-> Str(name), model |-> Str(name)]

CloudItemBare == [id |-> Undefined, name |-> Undefined, model |-> Undefined]

\* model arrays the cloud server answers /v1/models with
CloudItemLists ==
    { <<>>,
      <<CloudItemById(Gemini3ProPreview)>>,
      <<CloudItemBare>> }

\* model arrays the cloud server answers /api/tags with
CloudTagLists == { <<CloudItemByName(GptOss20b)>> }

\* model arrays the local server answers with
LocalItemLists ==
    { <<>>,
      <<[name |-> Str(Llama32)]>>,
      <<[name |-> Str(GptOss20b)], [name |-> Str(Gemma2)], [name |-> Str(Qwen3Cloud)]>>,
      <<[name |-> Undefined]>> }

\* a response: fetch rejected (network error, abort), a non-2xx status, or
\* a 2xx status with a body
Rejected == [status |-> "rejected"]

HttpError == [status |-> "error"]

Ok(body) == [status |-> "ok", body |-> body]

\* body.json() rejects
MalformedBody == [shape |-> "malformed"]

\* a JSON object with neither a data nor a models key
OtherBody == [shape |-> "other"]

CloudBodies ==
    {MalformedBody, OtherBody}
    \cup {[shape |-> s, items |-> l] :
              s \in {"data", "models", "array"}, l \in CloudItemLists}

LocalBodies ==
    {MalformedBody, OtherBody}
    \cup {[shape |-> "models", items |-> l] : l \in LocalItemLists}

CloudResponses == {Rejected, HttpError} \cup {Ok(b) : b \in CloudBodies}

TagsResponses ==
    {Rejected, HttpError} \cup {Ok([shape |-> "models", items |-> l]) : l \in CloudTagLists}

LocalResponses == {Rejected, HttpError} \cup {Ok(b) : b \in LocalBodies}

\* the answers to /v1/models and to /api/tags; /api/tags is asked only after
\* a non-2xx answer to /v1/models
CloudNetwork ==
    {[v1 |-> r, tags |-> Rejected] : r \in CloudResponses \ {HttpError}}
    \cup {[v1 |-> HttpError, tags |-> r] : r \in TagsResponses}

(***************************************************************************)
(* fetchOllamaCloudModels                                                  *)
(***************************************************************************)
\* a || b for string | undefined operands
Or(a, b) == IF Truthy(a) THEN a ELSE b

\* the key test is never met
NoKey_never(keys) == FALSE

\* `if (!apiKey)`: no cloud key is stored
NoKey(keys) == ~Truthy(getApiKey(keys, "ollama-cloud"))

\* the cache still counts as fresh when exactly TTL old
FreshCache_inclusive(cache, cacheTime, t) ==
    Len(cache) > 0 /\ t - cacheTime <= OLLAMA_CACHE_TTL

\* the cache test both fetch functions start with
FreshCache(cache, cacheTime, t) ==
    Len(cache) > 0 /\ t - cacheTime < OLLAMA_CACHE_TTL

\* the `models` array picked out of a parsed body
BodyModels(body) ==
    IF body.shape \in {"data", "models", "array"} THEN body.items ELSE <<>>

\* models.map(...) of the cloud fetch; formatModelName throws on an entry
\* whose id, name and model are all missing
CloudModelConfigs(models) ==
    LET modelId(m) == Or(m.id, Or(m.name, m.model))
        modelName(m) == Or(m.name, Or(m.id, modelId(m)))
    IN  IF \E i \in 1..Len(models) : modelName(models[i]).kind # "string"
        THEN [threw |-> TRUE]
        ELSE [threw |-> FALSE,
              value |-> [i \in 1..Len(models) |->
                            ModelConfig(modelId(models[i]).chars, "ollama-cloud", "cloud")]]

\* outcome of one call: the value returned, the cache afterwards, the
\* network calls made and the branch logged
fetchOllamaCloudModels(cache, cacheTime, keys, t, net) ==
    LET keep(log, calls) ==
            [ret |-> <<>>, cache |-> cache, cacheTime |-> cacheTime,
             calls |-> calls, log |-> log]
    IN
    IF NoKey(keys) THEN keep("no-key", <<>>)
    ELSE IF FreshCache(cache, cacheTime, t)
    THEN [ret |-> cache, cache |-> cache, cacheTime |-> cacheTime,
          calls |-> <<>>, log |-> "cached"]
    ELSE IF net.v1.status = "rejected" THEN keep("error", <<"/v1/models">>)
    ELSE LET calls == IF net.v1.status = "ok"
                      THEN <<"/v1/models">> ELSE <<"/v1/models", "/api/tags">>
             response == IF net.v1.status = "ok" THEN net.v1 ELSE net.tags
         IN  IF response.status = "rejected" THEN keep("error", calls)
             ELSE IF response.status # "ok" THEN keep("failed", calls)
             ELSE IF response.body = MalformedBody THEN keep("error", calls)
             ELSE LET mapped == CloudModelConfigs(BodyModels(response.body)) IN
                  IF mapped.threw THEN keep("error", calls)
                  ELSE [ret |-> mapped.value, cache |-> mapped.value, cacheTime |-> t,
                        calls |-> calls, log |-> "success"]

(***************************************************************************)
(* fetchOllamaLocalModels                                                  *)
(***************************************************************************)
\* data.models || []
LocalBodyModels(body) ==
    IF body.shape = "models" THEN body.items ELSE <<>>

\* every named model is kept, :cloud ones and those outside the allow-list
\* included
LocalModelConfigs_unfiltered(models) ==
    IF \E i \in 1..Len(models) : models[i].name = Undefined
    THEN [threw |-> TRUE]
    ELSE [threw |-> FALSE,
          value |-> [i \in 1..Len(models) |->
                        ModelConfig(models[i].name.chars, "ollama-local", "local")]]

\* the :cloud exclusion, the mapping and the tool-calling filter; throws
\* on an entry without a name
LocalModelConfigs(models) ==
    IF \E i \in 1..Len(models) : models[i].name = Undefined
    THEN [threw |-> TRUE]
    ELSE LET notCloud(m) == ~EndsWith(m.name.chars, CloudSuffix)
             named == SelectSeq(models, notCloud)
             allModels == [i \in 1..Len(named) |->
                              ModelConfig(named[i].name.chars, "ollama-local", "local")]
             toolCapable(m) == supportsToolCalling(m.id)
         IN  [threw |-> FALSE, value |-> SelectSeq(allModels, toolCapable)]

\* outcome of one call, as for the cloud; listed is the number of models
\* the server's answer held when the fetch succeeded
fetchOllamaLocalModels(cache, cacheTime, t, response) ==
    LET keep(log) ==
            [ret |-> <<>>, cache |-> cache, cacheTime |-> cacheTime,
             calls |-> <<"local/api/tags">>, log |-> log, listed |-> 0]
    IN
    IF FreshCache(cache, cacheTime, t)
    THEN [ret |-> cache, cache |-> cache, cacheTime |-> cacheTime,
          calls |-> <<>>, log |-> "cached", listed |-> 0]
    ELSE IF response.status = "rejected" THEN keep("error")
    ELSE IF response.status # "ok" THEN keep("failed")
    ELSE IF response.body = MalformedBody THEN keep("error")
    ELSE LET models == LocalBodyModels(response.body)
             mapped == LocalModelConfigs(models)
         IN  IF mapped.threw THEN keep("error")
             ELSE [ret |-> mapped.value, cache |-> mapped.value, cacheTime |-> t,
                   calls |-> <<"local/api/tags">>, log |-> "success",
                   listed |-> Len(models)]


\* every outcome the cloud fetch can have from a cache state at time t
CloudOutcomes(cache, cacheTime, keys, t) ==
    {fetchOllamaCloudModels(cache, cacheTime, keys, t, net) : net \in CloudNetwork}

\* every outcome the local fetch can have from a cache state at time t
LocalOutcomes(cache, cacheTime, t) ==
    {fetchOllamaLocalModels(cache, cacheTime, t, response) : response \in LocalResponses}

\* history of a source: its latest network fetch, and whether a forced
\* refresh has reset the cache timestamp since
NeverFetched == [happened |-> FALSE, at |-> 0, entries |-> <<>>, reset |-> FALSE]

NoteFetch(previous, outcome, t) ==
    IF outcome.calls # <<>>
    THEN [happened |-> TRUE, at |-> t, entries |-> outcome.ret, reset |-> FALSE]
    ELSE previous

NoteReset(previous) == [previous EXCEPT !.reset = TRUE]

\* what a fetch call showed: the value returned, the network calls made and
\* the branch it logged
Report(outcome) == [ret |-> outcome.ret, calls |-> outcome.calls, log |-> outcome.log]

LocalReport(outcome) == Report(outcome) @@ [listed |-> outcome.listed]

(***************************************************************************)
(* models:list                                                             *)
(***************************************************************************)
\* fail-fast: one failed fetch empties both sources
Settled_failFast(cloudOutcome, localOutcome) ==
    IF cloudOutcome.log \in {"failed", "error"} \/ localOutcome.log \in {"failed", "error"}
    THEN [cloud |-> <<>>, local |-> <<>>]
    ELSE [cloud |-> cloudOutcome.ret, local |-> localOutcome.ret]

\* Promise.allSettled over the two fetches: each source's value on its own
Settled(cloudOutcome, localOutcome) ==
    [cloud |-> cloudOutcome.ret, local |-> localOutcome.ret]

IsOllamaProvider(m) == m.provider = "ollama-local" \/ m.provider = "ollama-cloud"

\* static Ollama entries dropped only when both sources returned entries
StaticModels_both(ollamaCloudModels, ollamaLocalModels) ==
    IF Len(ollamaCloudModels) > 0 /\ Len(ollamaLocalModels) > 0
    THEN LET notOllama(m) == ~IsOllamaProvider(m) IN SelectSeq(AVAILABLE_MODELS, notOllama)
    ELSE AVAILABLE_MODELS

\* the static part of the merged list
StaticModels(ollamaCloudModels, ollamaLocalModels) ==
    IF Len(ollamaCloudModels) > 0 \/ Len(ollamaLocalModels) > 0
    THEN LET notOllama(m) == ~IsOllamaProvider(m) IN SelectSeq(AVAILABLE_MODELS, notOllama)
    ELSE AVAILABLE_MODELS

\* the flag stored with the entry is passed on
Available_stale(model, keys) == model.available

\* the available flag of one entry of the response
Available(model, keys) ==
    IF model.ollamaMode = "local" THEN TRUE ELSE hasApiKey(keys, model.provider)

\* the handler's return value
ModelsListResult(ollamaCloudModels, ollamaLocalModels, keys) ==
    LET allModels == StaticModels(ollamaCloudModels, ollamaLocalModels)
                         \o ollamaCloudModels \o ollamaLocalModels
    IN  [i \in 1..Len(allModels) |->
            [allModels[i] EXCEPT !.available = Available(allModels[i], keys)]]

ModelsList ==
    \E c \in CloudOutcomes(ollamaModelsCache, ollamaModelsCacheTime, apiKeys, now) :
    \E l \in LocalOutcomes(ollamaLocalModelsCache, ollamaLocalModelsCacheTime, now) :
        LET s == Settled(c, l) IN
        /\ ollamaModelsCache' = c.cache
        /\ ollamaModelsCacheTime' = c.cacheTime
        /\ ollamaLocalModelsCache' = l.cache
        /\ ollamaLocalModelsCacheTime' = l.cacheTime
        /\ lastFetch' = [cloud |-> NoteFetch(lastFetch.cloud, c, now),
                         local |-> NoteFetch(lastFetch.local, l, now)]
        /\ last' = [op |-> "models:list", at |-> now, cloud |-> Report(c),
                    local |-> LocalReport(l),
                    ret |-> ModelsListResult(s.cloud, s.local, apiKeys)]
        /\ UNCHANGED <<apiKeys, now, wsVars>>

(***************************************************************************)
(* models:refreshOllama and models:refreshOllamaLocal                      *)
(***************************************************************************)
\* the timestamp is left as it is
Invalidate_kept(cacheTime) == cacheTime

\* `ollamaModelsCacheTime = 0 // Invalidate cache`
Invalidate(cacheTime) == 0

RefreshOllama ==
    \E c \in CloudOutcomes(ollamaModelsCache, Invalidate(ollamaModelsCacheTime), apiKeys, now) :
        /\ ollamaModelsCache' = c.cache
        /\ ollamaModelsCacheTime' = c.cacheTime
        /\ lastFetch' = [lastFetch EXCEPT
                           !.cloud = NoteFetch(NoteReset(lastFetch.cloud), c, now)]
        /\ last' = [op |-> "models:refreshOllama", at |-> now, cloud |-> Report(c),
                    wasFresh |-> FreshCache(ollamaModelsCache, ollamaModelsCacheTime, now),
                    count |-> Len(c.ret)]
        /\ UNCHANGED <<ollamaLocalModelsCache, ollamaLocalModelsCacheTime, apiKeys, now,
                       wsVars>>

RefreshOllamaLocal ==
    \E l \in LocalOutcomes(ollamaLocalModelsCache, Invalidate(ollamaLocalModelsCacheTime),
                            now) :
        /\ ollamaLocalModelsCache' = l.cache
        /\ ollamaLocalModelsCacheTime' = l.cacheTime
        /\ lastFetch' = [lastFetch EXCEPT
                           !.local = NoteFetch(NoteReset(lastFetch.local), l, now)]
        /\ last' = [op |-> "models:refreshOllamaLocal", at |-> now, local |-> LocalReport(l),
                    wasFresh |-> FreshCache(ollamaLocalModelsCache,
                                            ollamaLocalModelsCacheTime, now),
                    count |-> Len(l.ret)]
        /\ UNCHANGED <<ollamaModelsCache, ollamaModelsCacheTime, apiKeys, now, wsVars>>

(***************************************************************************)
(* models:setApiKey, models:deleteApiKey and the clock                     *)
(***************************************************************************)
\* providers whose key is set and deleted
KeyProviders == {"ollama-cloud", "google"}

SetApiKey(provider) ==
    /\ apiKeys' = apiKeys \cup {provider}
    /\ last' = [op |-> "models:setApiKey", provider |-> provider]
    /\ UNCHANGED <<ollamaModelsCache, ollamaModelsCacheTime, ollamaLocalModelsCache,
                   ollamaLocalModelsCacheTime, now, lastFetch, wsVars>>

DeleteApiKey(provider) ==
    /\ apiKeys' = apiKeys \ {provider}
    /\ last' = [op |-> "models:deleteApiKey", provider |-> provider]
    /\ UNCHANGED <<ollamaModelsCache, ollamaModelsCacheTime, ollamaLocalModelsCache,
                   ollamaLocalModelsCacheTime, now, lastFetch, wsVars>>

\* Date.now() when the process starts
StartTime == 1000000

\* time passes in steps of half a TTL
TickMs == OLLAMA_CACHE_TTL \div 2

\* number of steps the clock takes
MaxTicks == 2

Tick ==
    /\ now + TickMs <= StartTime + MaxTicks * TickMs
    /\ now' = now + TickMs
    /\ last' = [op |-> "tick"]
    /\ UNCHANGED <<ollamaModelsCache, ollamaModelsCacheTime, ollamaLocalModelsCache,
                   ollamaLocalModelsCacheTime, apiKeys, lastFetch, wsVars>>

(***************************************************************************)
(* Specifications                                                          *)
(***************************************************************************)
\* handler calls that can be in flight at once
Slots == {"c1", "c2"}

\* a slot no call occupies
Idle == [pc |-> "idle"]

NoCalls == [c \in Slots |-> Idle]

\* the catalog as the module is loaded: empty caches, timestamps zero, no
\* call in flight
CatalogIdle ==
    /\ pending = NoCalls
    /\ ollamaModelsCache = <<>>
    /\ ollamaModelsCacheTime = 0
    /\ ollamaLocalModelsCache = <<>>
    /\ ollamaLocalModelsCacheTime = 0
    /\ now = StartTime
    /\ lastFetch = [cloud |-> NeverFetched, local |-> NeverFetched]

NoRequest == [kind |-> "none"]

\* an empty thread store, no global workspace, no watch, no read request
WorkspaceIdle ==
    /\ threads = [t \in ThreadIds |-> NoThread]
    /\ settings = Null
    /\ watchers = [t \in ThreadIds |-> NoWatch]
    /\ request = NoRequest

InitCatalog ==
    /\ CatalogIdle
    /\ WorkspaceIdle
    /\ apiKeys \in SUBSET KeyProviders
    /\ last = [op |-> "init"]

NextCatalog ==
    \/ ModelsList
    \/ RefreshOllama
    \/ RefreshOllamaLocal
    \/ \E p \in KeyProviders : SetApiKey(p)
    \/ \E p \in KeyProviders : DeleteApiKey(p)
    \/ Tick

SpecCatalog == InitCatalog /\ [][NextCatalog]_vars

(***************************************************************************)
(* Discovery as it runs: overlapping calls and their suspension points      *)
(***************************************************************************)
\* a fetch function as its caller sees it: not called, suspended on an
\* await (with the `now` it read before), or returned
NotCalled == [at |-> "none"]

Awaiting(at, t) == [at |-> at, now |-> t]

AwaitingBody(t, via) == [at |-> "json", now |-> t, via |-> via]

Done(ret) == [at |-> "done", ret |-> ret]

InFlight(f) == f.at \in {"v1", "tags", "fetch", "json"}

\* fetchOllamaCloudModels up to its first await
CloudBegin(cache, cacheTime, keys, t) ==
    IF NoKey(keys) THEN Done(<<>>)
    ELSE IF FreshCache(cache, cacheTime, t) THEN Done(cache)
    ELSE Awaiting("v1", t)

\* fetchOllamaLocalModels up to its first await; the abort timer is armed
LocalBegin(cache, cacheTime, t) ==
    IF FreshCache(cache, cacheTime, t) THEN Done(cache)
    ELSE Awaiting("fetch", t)

\* how `await fetch(...)` ends: it rejects, or resolves with a non-2xx or a
\* 2xx status once the headers are in
HeaderAnswers == {"rejected", "status", "ok"}

\* bodies the cloud server sends to /v1/models, to /api/tags, and the
\* local server to /api/tags
FewCloudBodies ==
    { MalformedBody, OtherBody,
      [shape |-> "data", items |-> <<CloudItemById(Gemini3ProPreview)>>],
      [shape |-> "array", items |-> <<CloudItemBare>>] }

FewTagBodies == { [shape |-> "models", items |-> <<CloudItemByName(GptOss20b)>>] }

FewLocalBodies ==
    { MalformedBody, OtherBody,
      [shape |-> "models", items |-> <<[name |-> Str(Llama32)]>>],
      [shape |-> "models", items |-> <<[name |-> Undefined]>>] }

\* what the server's body amounted to
BodyAnswer(body) ==
    IF body.shape \in {"data", "models", "array"} THEN "models" ELSE "other"

\* the sources settled at once, in the order the fetch functions were called
SettledAtOnce(cb, lb) ==
    (IF cb.at = "done" THEN <<"cloud">> ELSE <<>>)
        \o (IF lb.at = "done" THEN <<"local">> ELSE <<>>)

\* models:list runs both fetch functions to their first await
ListInvoke(c) ==
    /\ pending[c].pc = "idle"
    /\ LET cb == CloudBegin(ollamaModelsCache, ollamaModelsCacheTime, apiKeys, now)
           lb == LocalBegin(ollamaLocalModelsCache, ollamaLocalModelsCacheTime, now)
       IN  pending' = [pending EXCEPT ![c] =
                          [pc |-> "run", op |-> "models:list", cloud |-> cb, local |-> lb,
                           order |-> SettledAtOnce(cb, lb)]]
    /\ UNCHANGED <<threads, settings, watchers, request, catVars, last>>

\* models:refreshOllama zeroes the timestamp and runs the cloud fetch to its
\* first await
RefreshOllamaInvoke(c) ==
    /\ pending[c].pc = "idle"
    /\ ollamaModelsCacheTime' = Invalidate(ollamaModelsCacheTime)
    /\ LET cb == CloudBegin(ollamaModelsCache, Invalidate(ollamaModelsCacheTime),
                             apiKeys, now)
       IN  pending' = [pending EXCEPT ![c] =
                          [pc |-> "run", op |-> "models:refreshOllama", cloud |-> cb,
                           local |-> NotCalled, order |-> SettledAtOnce(cb, NotCalled)]]
    /\ UNCHANGED <<threads, settings, watchers, request, ollamaModelsCache,
                   ollamaLocalModelsCache, ollamaLocalModelsCacheTime, apiKeys, now,
                   lastFetch, last>>

\* models:refreshOllamaLocal, likewise
RefreshOllamaLocalInvoke(c) ==
    /\ pending[c].pc = "idle"
    /\ ollamaLocalModelsCacheTime' = Invalidate(ollamaLocalModelsCacheTime)
    /\ LET lb == LocalBegin(ollamaLocalModelsCache,
                             Invalidate(ollamaLocalModelsCacheTime), now)
       IN  pending' = [pending EXCEPT ![c] =
                          [pc |-> "run", op |-> "models:refreshOllamaLocal",
                           cloud |-> NotCalled, local |-> lb,
                           order |-> SettledAtOnce(NotCalled, lb)]]
    /\ UNCHANGED <<threads, settings, watchers, request, ollamaModelsCache,
                   ollamaModelsCacheTime, ollamaLocalModelsCache, apiKeys, now,
                   lastFetch, last>>

\* a fetch function returns ret after the network answered `answer`
FetchSettles(c, source, answer, ret) ==
    /\ pending' = [pending EXCEPT ![c] =
                       [pending[c] EXCEPT ![source] = Done(ret),
                                          !.order = Append(@, source)]]
    /\ last' = [op |-> "fetch", source |-> source, answer |-> answer, ret |-> ret]

\* a fetch function moves on to its next await
FetchWaits(c, source, f) ==
    /\ pending' = [pending EXCEPT ![c] = [pending[c] EXCEPT ![source] = f]]
    /\ UNCHANGED last

cloudCacheVars == <<ollamaModelsCache, ollamaModelsCacheTime>>

localCacheVars == <<ollamaLocalModelsCache, ollamaLocalModelsCacheTime>>

CloudCacheKept == UNCHANGED cloudCacheVars

LocalCacheKept == UNCHANGED localCacheVars

\* `await fetch('https://ollama.com/v1/models')` ends
CloudV1Resolves(c, answer) ==
    /\ pending[c].pc = "run"
    /\ pending[c].cloud.at = "v1"
    /\ CASE answer = "rejected" -> FetchSettles(c, "cloud", "rejected", <<>>)
         [] answer = "status" ->
                FetchWaits(c, "cloud", Awaiting("tags", pending[c].cloud.now))
         [] answer = "ok" ->
                FetchWaits(c, "cloud", AwaitingBody(pending[c].cloud.now, "v1"))
    /\ CloudCacheKept
    /\ UNCHANGED <<threads, settings, watchers, request, localCacheVars, apiKeys, now,
                   lastFetch>>

\* `await fetch('https://ollama.com/api/tags')` ends
CloudTagsResolves(c, answer) ==
    /\ pending[c].pc = "run"
    /\ pending[c].cloud.at = "tags"
    /\ CASE answer = "rejected" -> FetchSettles(c, "cloud", "rejected", <<>>)
         [] answer = "status" -> FetchSettles(c, "cloud", "status", <<>>)
         [] answer = "ok" ->
                FetchWaits(c, "cloud", AwaitingBody(pending[c].cloud.now, "tags"))
    /\ CloudCacheKept
    /\ UNCHANGED <<threads, settings, watchers, request, localCacheVars, apiKeys, now,
                   lastFetch>>

\* `await response.json()` of the cloud fetch ends; the rest of the function
\* runs without suspending
CloudBodyResolves(c, body) ==
    /\ pending[c].pc = "run"
    /\ pending[c].cloud.at = "json"
    /\ body \in (IF pending[c].cloud.via = "v1" THEN FewCloudBodies ELSE FewTagBodies)
    /\ IF body = MalformedBody
       THEN FetchSettles(c, "cloud", "malformed", <<>>) /\ CloudCacheKept
       ELSE LET mapped == CloudModelConfigs(BodyModels(body)) IN
            IF mapped.threw
            THEN FetchSettles(c, "cloud", "unnamed", <<>>) /\ CloudCacheKept
            ELSE /\ ollamaModelsCache' = mapped.value
                 /\ ollamaModelsCacheTime' = pending[c].cloud.now
                 /\ FetchSettles(c, "cloud", BodyAnswer(body), mapped.value)
    /\ UNCHANGED <<threads, settings, watchers, request, localCacheVars, apiKeys, now,
                   lastFetch>>

\* `await fetch(`${endpoint}/api/tags`, { signal })` ends before the timer
\* fires; on a resolved fetch clearTimeout disarms the timer
LocalResolves(c, answer) ==
    /\ pending[c].pc = "run"
    /\ pending[c].local.at = "fetch"
    /\ CASE answer = "rejected" -> FetchSettles(c, "local", "rejected", <<>>)
         [] answer = "status" -> FetchSettles(c, "local", "status", <<>>)
         [] answer = "ok" ->
                FetchWaits(c, "local", AwaitingBody(pending[c].local.now, "local"))
    /\ LocalCacheKept
    /\ UNCHANGED <<threads, settings, watchers, request, cloudCacheVars, apiKeys, now,
                   lastFetch>>

\* the 5 second timer fires while the fetch is awaited: controller.abort()
\* rejects it
LocalTimeout(c) ==
    /\ pending[c].pc = "run"
    /\ pending[c].local.at = "fetch"
    /\ FetchSettles(c, "local", "timeout", <<>>)
    /\ LocalCacheKept
    /\ UNCHANGED <<threads, settings, watchers, request, cloudCacheVars, apiKeys, now,
                   lastFetch>>

\* `await response.json()` of the local fetch ends
LocalBodyResolves(c, body) ==
    /\ pending[c].pc = "run"
    /\ pending[c].local.at = "json"
    /\ IF body = MalformedBody
       THEN FetchSettles(c, "local", "malformed", <<>>) /\ LocalCacheKept
       ELSE LET mapped == LocalModelConfigs(LocalBodyModels(body)) IN
            IF mapped.threw
            THEN FetchSettles(c, "local", "unnamed", <<>>) /\ LocalCacheKept
            ELSE /\ ollamaLocalModelsCache' = mapped.value
                 /\ ollamaLocalModelsCacheTime' = pending[c].local.now
                 /\ FetchSettles(c, "local", BodyAnswer(body), mapped.value)
    /\ UNCHANGED <<threads, settings, watchers, request, cloudCacheVars, apiKeys, now,
                   lastFetch>>

\* every fetch function the handler called has returned
AllReturned(call) ==
    call.pc = "run" /\ call.cloud.at \in {"none", "done"} /\ call.local.at \in {"none", "done"}

\* the settled values in the order the fetches settled
AllSettled_arrival(cloudRet, localRet, order) ==
    IF order[1] = "local" THEN <<localRet, cloudRet>> ELSE <<cloudRet, localRet>>

\* `const [cloudResult, localResult] = await Promise.allSettled([...])`: the
\* values in the order the promises were passed
AllSettled(cloudRet, localRet, order) == <<cloudRet, localRet>>

\* models:list resumes after Promise.allSettled and returns
ListReturn(c) ==
    /\ AllReturned(pending[c])
    /\ pending[c].op = "models:list"
    /\ LET call == pending[c]
           settled == AllSettled(call.cloud.ret, call.local.ret, call.order)
       IN  last' = [op |-> "models:list", order |-> call.order,
                    cloud |-> call.cloud.ret, local |-> call.local.ret,
                    ret |-> ModelsListResult(settled[1], settled[2], apiKeys)]
    /\ pending' = [pending EXCEPT ![c] = Idle]
    /\ UNCHANGED <<threads, settings, watchers, request, catVars>>

\* models:refreshOllama resumes and returns models.length
RefreshOllamaReturn(c) ==
    /\ AllReturned(pending[c])
    /\ pending[c].op = "models:refreshOllama"
    /\ last' = [op |-> "models:refreshOllama", count |-> Len(pending[c].cloud.ret)]
    /\ pending' = [pending EXCEPT ![c] = Idle]
    /\ UNCHANGED <<threads, settings, watchers, request, catVars>>

\* models:refreshOllamaLocal resumes and returns models.length
RefreshOllamaLocalReturn(c) ==
    /\ AllReturned(pending[c])
    /\ pending[c].op = "models:refreshOllamaLocal"
    /\ last' = [op |-> "models:refreshOllamaLocal", count |-> Len(pending[c].local.ret)]
    /\ pending' = [pending EXCEPT ![c] = Idle]
    /\ UNCHANGED <<threads, settings, watchers, request, catVars>>

\* the process has just started; a cloud key is stored or it is not
InitDiscovery ==
    /\ CatalogIdle
    /\ WorkspaceIdle
    /\ apiKeys \in {{}, {"ollama-cloud"}}
    /\ last = [op |-> "init"]

\* one models:list call overlaps with one refresh call
ListSlots == {"c1"}

RefreshSlots == {"c2"}

NextDiscovery ==
    \/ \E c \in ListSlots : ListInvoke(c)
    \/ \E c \in RefreshSlots : RefreshOllamaInvoke(c)
    \/ \E c \in RefreshSlots : RefreshOllamaLocalInvoke(c)
    \/ \E c \in Slots, a \in HeaderAnswers : CloudV1Resolves(c, a)
    \/ \E c \in Slots, a \in HeaderAnswers : CloudTagsResolves(c, a)
    \/ \E c \in Slots, b \in FewCloudBodies \cup FewTagBodies : CloudBodyResolves(c, b)
    \/ \E c \in Slots, a \in HeaderAnswers : LocalResolves(c, a)
    \/ \E c \in Slots : LocalTimeout(c)
    \/ \E c \in Slots, b \in FewLocalBodies : LocalBodyResolves(c, b)
    \/ \E c \in Slots : ListReturn(c)
    \/ \E c \in Slots : RefreshOllamaReturn(c)
    \/ \E c \in Slots : RefreshOllamaLocalReturn(c)

SpecDiscovery == InitDiscovery /\ [][NextDiscovery]_vars

\* local discovery on its own: no cloud key is stored, so the cloud fetch of
\* models:list returns at once
InitLocalDiscovery ==
    /\ CatalogIdle
    /\ WorkspaceIdle
    /\ apiKeys = {}
    /\ last = [op |-> "init"]

NextLocalDiscovery ==
    \/ \E c \in ListSlots : ListInvoke(c)
    \/ \E c \in RefreshSlots : RefreshOllamaLocalInvoke(c)
    \/ \E c \in Slots, a \in HeaderAnswers : LocalResolves(c, a)
    \/ \E c \in Slots : LocalTimeout(c)
    \/ \E c \in Slots, b \in FewLocalBodies : LocalBodyResolves(c, b)
    \/ \E c \in Slots : ListReturn(c)
    \/ \E c \in Slots : RefreshOllamaLocalReturn(c)

\* the event loop runs an armed timer's callback and a settled promise's
\* continuation; nothing makes the server answer
SpecLocalDiscovery ==
    /\ InitLocalDiscovery
    /\ [][NextLocalDiscovery]_vars
    /\ \A c \in Slots : WF_vars(LocalTimeout(c))
    /\ \A c \in Slots : WF_vars(ListReturn(c))
    /\ \A c \in Slots : WF_vars(RefreshOllamaLocalReturn(c))

\* workspace roots and paths the handlers are called with
PathA == <<"/", "a">>

PathAB == <<"/", "a", "b">>

WorkspacePaths == {Str(PathA), Str(PathAB)}

\* the path argument of workspace:set
SetPathArgs == WorkspacePaths \cup {Null, Str(<<>>)}

\* what dialog.showOpenDialog can resolve to
DialogResults ==
    {[canceled |-> TRUE, filePaths |-> <<>>], [canceled |-> FALSE, filePaths |-> <<>>]}
    \cup {[canceled |-> FALSE, filePaths |-> <<p>>] : p \in WorkspacePaths}

MetaKeys == {"workspacePath", "title"}

TitleValues == {Str(<<"x">>)}

\* metadata objects whose workspacePath, when present, is drawn from wps
MetadataObjects(wps, keys) ==
    UNION {{f \in [K -> wps \cup TitleValues] :
               /\ "workspacePath" \in K => f["workspacePath"] \in wps
               /\ "title" \in K => f["title"] \in TitleValues} : K \in SUBSET keys}

\* rows a thread id can have in the store, the missing row included
ThreadRows(wps, keys) ==
    {NoThread}
    \cup {[kind |-> "thread", metadata |-> m] :
             m \in {Null, JsonText(Malformed), JsonText(JsonNull)}
                   \cup {JsonText(JsonObject(f)) : f \in MetadataObjects(wps, keys)}}

InitWorkspace ==
    /\ CatalogIdle
    /\ apiKeys = {}
    /\ threads \in [ThreadIds -> ThreadRows(SetPathArgs, MetaKeys)]
    /\ settings \in WorkspacePaths \cup {Null}
    /\ watchers = [t \in ThreadIds |-> NoWatch]
    /\ request = NoRequest
    /\ last = [op |-> "init"]

\* names of directory entries: a hidden one and two ordinary ones
HiddenName == <<".", "g">>

SrcName == <<"s">>

ReadmeName == <<"r">>

\* the disks the snapshot handler meets beside the binding handlers: a root
\* with a file and a hidden directory, and an unreadable root
FewDisks ==
    { DirNode(<<>>, TRUE, <<FileNode(ReadmeName, TRUE), DirNode(HiddenName, TRUE, <<>>)>>),
      DirNode(<<>>, FALSE, <<>>) }

\* the virtual paths the read handlers are given beside the binding handlers
FewVirtualPaths == { <<Slash>> \o ReadmeName, <<".", ".", Slash>> \o SrcName }

\* the file is there, or it is not
FewStatOutcomes == {"file", "ENOENT"}

NextWorkspace ==
    \/ \E t \in ThreadArgs : WorkspaceGet(t)
    \/ \E t \in ThreadArgs, p \in SetPathArgs : WorkspaceSet(t, p)
    \/ \E t \in ThreadArgs, d \in DialogResults : WorkspaceSelect(t, d)
    \/ \E t \in ThreadIds, d \in FewDisks : WorkspaceLoadFromDisk(t, d)
    \/ \E t \in ThreadIds, p \in FewVirtualPaths, st \in FewStatOutcomes :
           WorkspaceReadFile(t, p, st, "ok")
    \/ \E t \in ThreadIds, p \in FewVirtualPaths, st \in FewStatOutcomes :
           WorkspaceReadBinaryFile(t, p, st, "ok")

SpecWorkspace == InitWorkspace /\ [][NextWorkspace]_vars

(***************************************************************************)
(* workspace:set and workspace:select as they run: overlapping calls        *)
(***************************************************************************)
\* workspace:set with a thread identifier runs to `await import('../db')`
SetInvoke(c, threadId, newPath) ==
    /\ pending[c].pc = "idle"
    /\ pending' = [pending EXCEPT ![c] = [pc |-> "import", op |-> "workspace:set",
                                          threadId |-> threadId, arg |-> newPath]]
    /\ UNCHANGED <<threads, settings, watchers, request, catVars, last>>

\* the import resolves: getThread to the return run without suspending
SetResume(c) ==
    /\ pending[c].pc = "import"
    /\ pending[c].op = "workspace:set"
    /\ SetApplied(pending[c].threadId, pending[c].arg)
    /\ pending' = [pending EXCEPT ![c] = Idle]
    /\ UNCHANGED <<request, catVars>>

\* workspace:select runs to `await dialog.showOpenDialog(...)`
SelectInvoke(c, threadId) ==
    /\ pending[c].pc = "idle"
    /\ pending' = [pending EXCEPT ![c] = [pc |-> "dialog", op |-> "workspace:select",
                                          threadId |-> threadId]]
    /\ UNCHANGED <<threads, settings, watchers, request, catVars, last>>

\* the dialog resolves: a dismissed dialog returns null at once, a choice
\* runs to `await import('../db')`
SelectDialogResolves(c, dialogResult) ==
    /\ pending[c].pc = "dialog"
    /\ IF Cancelled(dialogResult)
       THEN /\ SelectApplied(pending[c].threadId, dialogResult)
            /\ pending' = [pending EXCEPT ![c] = Idle]
            /\ UNCHANGED <<request, catVars>>
       ELSE /\ pending' = [pending EXCEPT ![c] = [pc |-> "import",
                                                  op |-> "workspace:select",
                                                  threadId |-> pending[c].threadId,
                                                  arg |-> dialogResult]]
            /\ UNCHANGED <<threads, settings, watchers, request, catVars, last>>

\* the import resolves: getThread to the return run without suspending
SelectResume(c) ==
    /\ pending[c].pc = "import"
    /\ pending[c].op = "workspace:select"
    /\ SelectApplied(pending[c].threadId, pending[c].arg)
    /\ pending' = [pending EXCEPT ![c] = Idle]
    /\ UNCHANGED <<request, catVars>>

\* rows the store holds when the process starts: bindings persist, watches
\* do not
InitBinding ==
    /\ CatalogIdle
    /\ apiKeys = {}
    /\ threads \in [ThreadIds -> ThreadRows({Str(PathA)}, {"workspacePath"})]
    /\ settings = Null
    /\ watchers = [t \in ThreadIds |-> NoWatch]
    /\ request = NoRequest
    /\ last = [op |-> "init"]

NextBinding ==
    \/ \E c \in Slots, t \in ThreadIds, p \in SetPathArgs : SetInvoke(c, t, p)
    \/ \E c \in Slots : SetResume(c)
    \/ \E c \in Slots, t \in ThreadIds : SelectInvoke(c, t)
    \/ \E c \in Slots, d \in DialogResults : SelectDialogResolves(c, d)
    \/ \E c \in Slots : SelectResume(c)

SpecBinding == InitBinding /\ [][NextBinding]_vars

\* characters of the paths the read handlers are tried on
PathChars == {"/", ".", "a"}

\* longest workspace root
MaxRootLen == 3

\* longest virtual path
MaxPathLen == 5

\* absolute workspace roots
Roots == {r \in SeqsUpTo(PathChars, MaxRootLen) : IsAbsolute(r)}

VirtualPaths == SeqsUpTo(PathChars, MaxPathLen)

ReadThread == "t1"

\* a read request: the arguments of workspace:readFile / readBinaryFile
ReadRequests == [kind : {"read"}, threadId : {ReadThread}, filePath : VirtualPaths]

InitRead ==
    /\ CatalogIdle
    /\ apiKeys = {}
    /\ \E row \in ThreadRows({Null, Str(<<>>)} \cup {Str(r) : r \in Roots},
                             {"workspacePath"}) :
           threads = [t \in ThreadIds |-> IF t = ReadThread THEN row ELSE NoThread]
    /\ settings = Null
    /\ watchers = [t \in ThreadIds |-> NoWatch]
    /\ request \in ReadRequests
    /\ last = [op |-> "init"]

NextRead ==
    \/ \E st \in StatOutcomes, rd \in ReadOutcomes :
           WorkspaceReadFile(request.threadId, request.filePath, st, rd)
    \/ \E st \in StatOutcomes, rd \in ReadOutcomes :
           WorkspaceReadBinaryFile(request.threadId, request.filePath, st, rd)

SpecRead == InitRead /\ [][NextRead]_vars

\* names of directory entries: a hidden one, the dependency directory, and
\* two ordinary ones
EntryNames == {HiddenName, NodeModulesName, SrcName, ReadmeName}

\* innermost entries: files and empty directories, and a file stat fails on
Leaves ==
    {FileNode(n, TRUE) : n \in EntryNames}
    \cup {DirNode(n, TRUE, <<>>) : n \in EntryNames}
    \cup {FileNode(ReadmeName, FALSE)}

\* what readdir gives for a subdirectory
SubListings == {<<>>} \cup {<<l>> : l \in Leaves}

\* entries of the root: files, directories with a listing, and a file and a
\* directory the disk call fails on
TopNodes ==
    {FileNode(n, TRUE) : n \in EntryNames}
    \cup {DirNode(n, TRUE, l) : n \in EntryNames, l \in SubListings}
    \cup {FileNode(SrcName, FALSE), DirNode(SrcName, FALSE, <<>>)}

\* most entries in the root directory
MaxEntries == 2

DistinctNames(listing) ==
    \A i, j \in 1..Len(listing) : i # j => listing[i].name # listing[j].name

RootListings == {l \in SeqsUpTo(TopNodes, MaxEntries) : DistinctNames(l)}

\* the disk under a workspace root; the root itself may be unreadable
Disks ==
    {DirNode(<<>>, TRUE, l) : l \in RootListings} \cup {DirNode(<<>>, FALSE, <<>>)}

\* a snapshot request: the argument of workspace:loadFromDisk and the disk
\* the walk finds
SnapshotRequests == [kind : {"snapshot"}, threadId : {ReadThread}, disk : Disks]

InitSnapshot ==
    /\ CatalogIdle
    /\ apiKeys = {}
    /\ \E row \in ThreadRows({Str(PathA)}, {"workspacePath"}) :
           threads = [t \in ThreadIds |-> IF t = ReadThread THEN row ELSE NoThread]
    /\ settings = Null
    /\ watchers = [t \in ThreadIds |-> NoWatch]
    /\ request \in SnapshotRequests
    /\ last = [op |-> "init"]

NextSnapshot == WorkspaceLoadFromDisk(request.threadId, request.disk)

SpecSnapshot == InitSnapshot /\ [][NextSnapshot]_vars

(***************************************************************************)
(* A snapshot followed by reads of the entries it listed                   *)
(***************************************************************************)
\* the disks walked: nested directories with files at three depths, a
\* hidden file beside a listed one, and an empty root
TreeDisks ==
    { DirNode(<<>>, TRUE,
          << FileNode(ReadmeName, TRUE),
             DirNode(SrcName, TRUE,
                 << FileNode(ReadmeName, TRUE),
                    DirNode(SrcName, TRUE, <<FileNode(ReadmeName, TRUE)>>) >>) >>),
      DirNode(<<>>, TRUE,
          << DirNode(SrcName, TRUE, <<FileNode(HiddenName, TRUE)>>),
             FileNode(SrcName \o <<".">> \o ReadmeName, TRUE) >>),
      DirNode(<<>>, TRUE, <<>>) }

ListingRequests == [kind : {"listing"}, threadId : {ReadThread}, disk : TreeDisks]

\* workspace:readFile or workspace:readBinaryFile called with the path of
\* a file entry of the snapshot just returned; the file is still there
ReadListedEntry ==
    /\ last.op = "workspace:loadFromDisk"
    /\ ~last.threw
    /\ last.ret.success
    /\ \E i \in 1..Len(last.ret.files), rd \in ReadOutcomes :
           /\ ~last.ret.files[i].is_dir
           /\ \/ WorkspaceReadFile(request.threadId, last.ret.files[i].path, "file", rd)
              \/ WorkspaceReadBinaryFile(request.threadId, last.ret.files[i].path, "file",
                                         rd)

InitListing ==
    /\ CatalogIdle
    /\ apiKeys = {}
    /\ \E r \in Roots :
           threads = [t \in ThreadIds |->
                         IF t = ReadThread
                         THEN [kind |-> "thread",
                               metadata |-> JsonText(JsonObject(
                                   [k \in {"workspacePath"} |-> Str(r)]))]
                         ELSE NoThread]
    /\ settings = Null
    /\ watchers = [t \in ThreadIds |-> NoWatch]
    /\ request \in ListingRequests
    /\ last = [op |-> "init"]

NextListing ==
    \/ WorkspaceLoadFromDisk(request.threadId, request.disk)
    \/ ReadListedEntry

SpecListing == InitListing /\ [][NextListing]_vars

(***************************************************************************)
(* supportsToolCalling called on its own                                   *)
(***************************************************************************)
\* String.prototype.toUpperCase, to write the names a server may report
toUpperCase(s) ==
    [i \in 1..Len(s) |->
        IF \E k \in 1..26 : LowerLetters[k] = s[i]
        THEN UpperLetters[CHOOSE k \in 1..26 : LowerLetters[k] = s[i]]
        ELSE s[i]]

Capitalised(s) == IF s = <<>> THEN s ELSE toUpperCase(<<Head(s)>>) \o Tail(s)

\* families that are not on the allow-list, and the empty name
OtherFamilies ==
    { <<"g", "e", "m", "m", "a", "2">>,
      <<"g", "e", "m", "m", "a">>,
      <<"l", "l", "a", "m", "a", "3">>,
      <<"q", "w", "e", "n">>,
      <<"m", "i", "s", "t", "r", "a", "l", "-", "l", "a", "r", "g", "e">>,
      <<"m", "i", "n", "i", "s", "t", "r", "a", "l">>,
      <<>> }

\* base names: each family, the family followed or preceded by more text
BaseNames ==
    LET fams == ToolCallingPrefixes \cup ToolCallingExact \cup OtherFamilies IN
    fams \cup { f \o <<"-", "c", "o", "d", "e", "r">> : f \in fams } \cup { <<"x">> \o f : f \in fams }

\* what follows the base name: nothing, a tag, a tag holding a second `:`
ModelTags ==
    { <<>>, <<":", "3", "b">>, <<":", "7", "b">>, <<":", "9", "b">>, <<":", "l", "a", "t", "e", "s", "t">>, <<":", "a", ":", "b">>, <<":", "c", "l", "o", "u", "d">> }

ModelNames ==
    { c \o t : c \in UNION { {b, Capitalised(b), toUpperCase(b)} : b \in BaseNames },
               t \in ModelTags }

ClassifyRequests == [kind : {"classify"}, modelName : ModelNames]

\* one call of supportsToolCalling(modelName)
ClassifyModel(modelName) ==
    /\ last' = [op |-> "supportsToolCalling", modelName |-> modelName,
                ret |-> supportsToolCalling(modelName)]
    /\ UNCHANGED <<wsVars, catVars>>

InitToolCalling ==
    /\ CatalogIdle
    /\ apiKeys = {}
    /\ threads = [t \in ThreadIds |-> NoThread]
    /\ settings = Null
    /\ watchers = [t \in ThreadIds |-> NoWatch]
    /\ request \in ClassifyRequests
    /\ last = [op |-> "init"]

NextToolCalling == ClassifyModel(request.modelName)

SpecToolCalling == InitToolCalling /\ [][NextToolCalling]_vars

(***************************************************************************)
(* Properties of the read handlers (SpecRead)                              *)
(***************************************************************************)
IsRead == last.op \in {"workspace:readFile", "workspace:readBinaryFile"}

\* the read named a thread with a bound root and was answered
ReadWithRoot ==
    /\ IsRead
    /\ ~last.threw
    /\ last.ret.success \/ last.ret.error # NoWorkspaceError

\* the bound root of the thread the last read named
ReadRoot == ThreadWorkspacePath(threads, last.threadId).value.chars

\* the disk path the last read resolves to
ReadTarget == PathResolve(PathJoin(ReadRoot, RelativePath(last.filePath)))

\* path is the directory root or lies beneath it: root's canonical segments
\* are a prefix of path's
Within(path, root) ==
    LET ps == NormalizeSegments(SplitOn(path, Slash), <<>>, FALSE)
        rs == NormalizeSegments(SplitOn(root, Slash), <<>>, FALSE)
    IN  Len(rs) <= Len(ps) /\ SubSeq(ps, 1, Len(rs)) = rs

HasDotDot(filePath) ==
    \E i \in 1..Len(SplitOn(filePath, Slash)) : SplitOn(filePath, Slash)[i] = DotDotSeg

AccessDenied == [success |-> FALSE, error |-> AccessDeniedError]

\* C1: a read whose resolved disk path is neither the workspace root nor a
\* descendant of it (a sibling whose name begins with the root's name
\* included) fails with AccessDenied and makes no stat or read call.
C1_OutsideReadDenied ==
    (ReadWithRoot /\ ~Within(ReadTarget, ReadRoot))
        => (last.ret = AccessDenied /\ last.fsOps = <<>>)

\* C2: a read of a virtual path whose `..` segments take the resolved path
\* out of the workspace root fails with AccessDenied in the resolution step.
C2_DotDotEscapeDenied ==
    (ReadWithRoot /\ HasDotDot(last.filePath) /\ ~Within(ReadTarget, ReadRoot))
        => last.ret = AccessDenied

(***************************************************************************)
(* Properties of the snapshot (SpecSnapshot)                               *)
(***************************************************************************)
IsLoad == last.op = "workspace:loadFromDisk"

LoadSucceeded == IsLoad /\ ~last.threw /\ last.ret.success

\* the names along a virtual path `/a/b/c`
Segments(path) == SplitOn(Tail(path), Slash)

\* a hidden name or the dependency directory's name
NoiseName(name) == name[1] = "." \/ name = NodeModulesName

\* C11: a successful workspace:loadFromDisk returns no entry whose name
\* starts with `.` or is node_modules, and no entry beneath such a directory:
\* no name along any returned path is such a name.
C11_SnapshotFilter ==
    LoadSucceeded =>
        \A i \in 1..Len(last.ret.files) :
            \A k \in 1..Len(Segments(last.ret.files[i].path)) :
                ~NoiseName(Segments(last.ret.files[i].path)[k])

\* the root held a hidden directory with a file in it and a directory with
\* node_modules in it; only the latter directory was returned
C11_Witness ==
    /\ LoadSucceeded
    /\ request.disk.entries =
           << DirNode(HiddenName, TRUE, <<FileNode(SrcName, TRUE)>>),
              DirNode(SrcName, TRUE, <<DirNode(NodeModulesName, TRUE, <<>>)>>) >>
    /\ last.ret.files = <<DirEntry(SrcName)>>

(***************************************************************************)
(* Properties of the binding handlers (SpecWorkspace)                      *)
(***************************************************************************)
\* what workspace:get answers for a thread before and after a step
GetNow(t) == WorkspaceGetResult(threads, settings, t)

GetNext(t) == WorkspaceGetResult(threads', settings', t)

Returned(v) == [threw |-> FALSE, ret |-> v]

C4_NoFault ==
    last.op \in {"workspace:get", "workspace:set", "workspace:select"} => ~last.threw

\* keys of a thread's metadata object other than workspacePath, with values
OtherKeys(row) ==
    IF HasMetadata(row) /\ row.metadata.json.t = "object"
    THEN [k \in (DOMAIN row.metadata.json.fields) \ {"workspacePath"} |->
             row.metadata.json.fields[k]]
    ELSE [k \in {} |-> Null]

\* C5: set and select leave every metadata key other than workspacePath
\* present with the value it had.
C5_OtherKeysKept ==
    [][last'.op \in {"workspace:set", "workspace:select"}
          => \A t \in ThreadIds :
                 \A k \in DOMAIN OtherKeys(threads[t]) :
                     /\ k \in DOMAIN OtherKeys(threads'[t])
                     /\ OtherKeys(threads'[t])[k] = OtherKeys(threads[t])[k]]_vars

\* a select rebound a thread that keeps its title key
C5_Witness ==
    /\ last.op = "workspace:select"
    /\ last.threadId = "t1"
    /\ ~last.threw
    /\ GetNow("t1") = Returned(Str(PathAB))
    /\ watchers["t1"] = <<Str(PathAB)>>
    /\ DOMAIN OtherKeys(threads["t1"]) = {"title"}

IsSet == last.op = "workspace:set"

IsSelect == last.op = "workspace:select"

\* C12 as claimed: workspace:set with a thread identifier writes the
\* metadata and then calls startWatching(T, path) when path is non-null and
\* stopWatching(T) when it is null; without a thread identifier it makes no
\* watcher call.
C12_WatcherCallsAsClaimed ==
    IsSet =>
        IF last.threadId # ""
        THEN last.calls = << UpdateThreadCall(last.threadId),
                             IF last.path # Null
                             THEN StartWatchingCall(last.threadId, last.path)
                             ELSE StopWatchingCall(last.threadId) >>
        ELSE last.calls = <<>>

\* C12 amended: workspace:set for a thread that has a row, when it returns,
\* has written the metadata and then made one watcher call: startWatching(T,
\* path) when path is a non-empty string, stopWatching(T) when path is null
\* or empty, and the watch map shows it; a set without a thread identifier,
\* for an identifier with no row, or that faults on the stored metadata
\* makes no call at all.
C12_WatcherCalls ==
    IsSet =>
        IF last.threadId = "" \/ last.threw \/ threads[last.threadId] = NoThread
        THEN last.calls = <<>>
        ELSE /\ last.calls = << UpdateThreadCall(last.threadId),
                                IF last.path.kind = "string" /\ last.path.chars # <<>>
                                THEN StartWatchingCall(last.threadId, last.path)
                                ELSE StopWatchingCall(last.threadId) >>
             /\ watchers[last.threadId] =
                    IF last.path.kind = "string" /\ last.path.chars # <<>>
                    THEN <<last.path>> ELSE NoWatch

\* a set unbound t1, which was watched: the write, then stopWatching(t1),
\* while t2 keeps its watch
C12_Witness ==
    /\ IsSet
    /\ last.threadId = "t1"
    /\ last.path = Null
    /\ last.watched = <<Str(PathAB)>>
    /\ last.calls = <<UpdateThreadCall("t1"), StopWatchingCall("t1")>>
    /\ watchers = [t \in ThreadIds |-> IF t = "t1" THEN NoWatch ELSE <<Str(PathA)>>]

\* the thread and path of the startWatching call a handler made, if any
Started(calls) == {c \in {calls[i] : i \in 1..Len(calls)} : c.call = "startWatching"}

Stopped(calls) == {c \in {calls[i] : i \in 1..Len(calls)} : c.call = "stopWatching"}

\* C13: across workspace:set and workspace:select calls every thread has at
\* most one active watch; a start for a thread replaces the watch it has and
\* touches no other thread's; a stop for a thread with no watch changes
\* nothing.
C13_OneWatchPerThread ==
    [][/\ \A t \in ThreadIds : Len(watchers[t]) <= 1 /\ Len(watchers'[t]) <= 1
       /\ last'.op \in {"workspace:set", "workspace:select"} =>
              /\ \A c \in Started(last'.calls) :
                     watchers' = [watchers EXCEPT ![c.threadId] = <<c.path>>]
              /\ \A c \in Stopped(last'.calls) :
                     watchers[c.threadId] = NoWatch => watchers' = watchers]_vars

\* a select rebound t1, watched on /a, to /ab: one watch, on /ab, and t2's
\* watch as it was
C13_Witness ==
    /\ IsSelect
    /\ last.threadId = "t1"
    /\ last.watched = <<Str(PathA)>>
    /\ last.calls = <<UpdateThreadCall("t1"), StartWatchingCall("t1", Str(PathAB))>>
    /\ watchers = [t \in ThreadIds |-> IF t = "t1" THEN <<Str(PathAB)>> ELSE <<Str(PathA)>>]

\* C14: workspace:loadFromDisk, workspace:readFile and
\* workspace:readBinaryFile leave the watch map, every thread's metadata and
\* the global setting as they were, whether they succeed, fail or fault.
C14_ReadsChangeNothing ==
    [][last'.op \in {"workspace:loadFromDisk", "workspace:readFile",
                     "workspace:readBinaryFile"}
          => /\ watchers' = watchers
             /\ threads' = threads
             /\ settings' = settings]_vars

\* a snapshot of t1's workspace succeeded while t1 is watched and a global
\* workspace is set
C14_Witness ==
    /\ LoadSucceeded
    /\ last.threadId = "t1"
    /\ Len(last.ret.files) > 0
    /\ watchers["t1"] = <<Str(PathAB)>>
    /\ GetNow("t1") = Returned(Str(PathAB))
    /\ settings = Str(PathA)

\* C15: a workspace:select whose picker was cancelled or gave no path
\* returns null and leaves thread metadata, the global setting and the watch
\* map unchanged, with or without a thread identifier.
C15_CancelChangesNothing ==
    [][(last'.op = "workspace:select"
           /\ (last'.dialog.canceled \/ last'.dialog.filePaths = <<>>))
          => /\ ~last'.threw
             /\ last'.ret = Null
             /\ last'.calls = <<>>
             /\ watchers' = watchers
             /\ threads' = threads
             /\ settings' = settings]_vars

\* the picker gave no path for t1, which keeps its binding and its watch
C15_Witness ==
    /\ IsSelect
    /\ last.threadId = "t1"
    /\ ~last.dialog.canceled /\ last.dialog.filePaths = <<>>
    /\ last.ret = Null
    /\ GetNow("t1") = Returned(Str(PathA))
    /\ watchers["t1"] = <<Str(PathA)>>

\* C16: a workspace:select that picks path P returns what workspace:set
\* with the same thread identifier and P returns from the same state, and
\* leaves the same thread metadata, global setting and watch map, also for
\* an identifier with no row in the thread store.
C16_SelectEqualsSet ==
    [][(last'.op = "workspace:select"
           /\ ~last'.dialog.canceled /\ last'.dialog.filePaths # <<>>)
          => LET asSet == WorkspaceSetResult(threads, settings, watchers, last'.threadId,
                                             last'.dialog.filePaths[1])
             IN  /\ last'.threw = asSet.threw
                 /\ ~asSet.threw => last'.ret = asSet.ret
                 /\ threads' = asSet.threads
                 /\ settings' = asSet.settings
                 /\ watchers' = asSet.watchers]_vars

(***************************************************************************)
(* Properties of the catalog (SpecCatalog)                                 *)
(***************************************************************************)
IsList == last.op = "models:list"

IsListNext == last'.op = "models:list"

\* number of entries the two dynamic sources contributed to the response
DynamicCount == Len(last.cloud.ret) + Len(last.local.ret)

\* ids of a list of entries
Ids(models) == [i \in 1..Len(models) |-> models[i].id]

\* the source can be asked: the cloud needs a stored key
Askable(source) == source = "cloud" => "ollama-cloud" \in apiKeys

Failed(report) == report.log \in {"failed", "error"}

\* the last n entries of the response
ResponseTail(n) == SubSeq(last.ret, Len(last.ret) - n + 1, Len(last.ret))

\* C7: in a models:list response a failed source contributes no entry and
\* the other source's entries are all there.
C7_IsolatedFailure ==
    IsList =>
        /\ Failed(last.cloud) =>
               /\ last.cloud.ret = <<>>
               /\ Ids(ResponseTail(Len(last.local.ret))) = Ids(last.local.ret)
               /\ \A i \in 1..Len(last.ret) :
                      last.ret[i].provider = "ollama-local" <=> i > Len(last.ret) - DynamicCount
        /\ Failed(last.local) =>
               /\ last.local.ret = <<>>
               /\ Ids(ResponseTail(Len(last.cloud.ret))) = Ids(last.cloud.ret)

\* the cloud fetch failed on the network and the local entries were returned
C7_Witness ==
    /\ IsList
    /\ Failed(last.cloud) /\ last.cloud.calls # <<>>
    /\ last.local.log = "success" /\ Len(last.local.ret) > 0
    /\ Len(last.ret) > Len(last.local.ret)

\* the response entries that come from the static table
StaticPart == SubSeq(last.ret, 1, Len(last.ret) - DynamicCount)

\* C8: when a dynamic source returned entries the response has no static
\* ollama-local / ollama-cloud entry; when both returned none it has every
\* entry of the static table.
C8_StaticSuppression ==
    IsList =>
        /\ DynamicCount > 0 =>
               /\ \A i \in 1..Len(StaticPart) : ~IsOllamaProvider(StaticPart[i])
               /\ \A i \in 1..Len(AVAILABLE_MODELS) :
                      ~IsOllamaProvider(AVAILABLE_MODELS[i])
                          => \E j \in 1..Len(StaticPart) :
                                 StaticPart[j].id = AVAILABLE_MODELS[i].id
        /\ DynamicCount = 0 =>
               /\ Ids(last.ret) = Ids(AVAILABLE_MODELS)
               /\ \A i \in 1..Len(last.ret) :
                      last.ret[i].provider = AVAILABLE_MODELS[i].provider

\* only the local source returned entries and the static cloud entries went
C8_Witness ==
    /\ IsList
    /\ Len(last.cloud.ret) = 0
    /\ Len(last.local.ret) > 0
    /\ Len(StaticPart) < Len(AVAILABLE_MODELS)

\* C9: in a models:list response an entry from the local source is
\* available, and any other entry is available exactly when its provider has
\* a key at the time of the call, cached entries included.
C9_AvailableRecomputed ==
    IsList =>
        \A i \in 1..Len(last.ret) :
            last.ret[i].available =
                IF i > Len(last.ret) - Len(last.local.ret)
                THEN TRUE
                ELSE last.ret[i].provider \in apiKeys

\* cached local entries served after the keys changed: google has a key, the
\* cloud key was deleted after a cloud fetch
C9_Witness ==
    /\ IsList
    /\ last.local.log = "cached" /\ Len(last.local.ret) > 0
    /\ lastFetch.cloud.happened /\ last.cloud.log = "no-key"
    /\ apiKeys = {"google"}
    /\ \E i \in 1..Len(last.ret) : last.ret[i].available /\ last.ret[i].provider = "google"
    /\ \E i \in 1..Len(last.ret) : ~last.ret[i].available

\* C10: no two entries of a models:list response have the same id.
C10_UniqueIds ==
    IsList =>
        \A i, j \in 1..Len(last.ret) : i # j => last.ret[i].id # last.ret[j].id

\* C17: models:refreshOllama and models:refreshOllamaLocal never answer from
\* the cache, also within TTL of a fetch that returned entries: they go to
\* the network (the cloud when it has a key), return the number of entries
\* that fetch produced, and leave the timestamp at the time of a successful
\* fetch or else at zero.
C17_RefreshRefetches ==
    [][/\ last'.op = "models:refreshOllama" =>
              /\ last'.cloud.log # "cached"
              /\ "ollama-cloud" \in apiKeys => last'.cloud.calls # <<>>
              /\ last'.count = Len(last'.cloud.ret)
              /\ IF last'.cloud.log = "success"
                 THEN /\ ollamaModelsCache' = last'.cloud.ret
                      /\ ollamaModelsCacheTime' = now
                 ELSE /\ ollamaModelsCache' = ollamaModelsCache
                      /\ ollamaModelsCacheTime' = 0
       /\ last'.op = "models:refreshOllamaLocal" =>
              /\ last'.local.log # "cached"
              /\ last'.local.calls # <<>>
              /\ last'.count = Len(last'.local.ret)
              /\ IF last'.local.log = "success"
                 THEN /\ ollamaLocalModelsCache' = last'.local.ret
                      /\ ollamaLocalModelsCacheTime' = now
                 ELSE /\ ollamaLocalModelsCache' = ollamaLocalModelsCache
                      /\ ollamaLocalModelsCacheTime' = 0]_vars

\* half a TTL after a local fetch that returned entries, with the cache
\* fresh, a refresh went to the network and returned the count it got
C17_Witness ==
    /\ last.op = "models:refreshOllamaLocal"
    /\ last.wasFresh
    /\ last.at = StartTime + TickMs
    /\ last.local.calls # <<>>
    /\ last.local.log = "success"
    /\ last.count = 1
    /\ ollamaLocalModelsCacheTime = now

\* C18: with no cloud key stored the cloud fetch returns no entry and makes
\* no network call, in models:list and in models:refreshOllama, whatever the
\* cloud cache holds, and leaves the cache entries and the timestamp it found
\* (zero in a refresh) as they are.
C18_NoKeyShortCircuit ==
    [][(last'.op \in {"models:list", "models:refreshOllama"} /\ "ollama-cloud" \notin apiKeys)
          => /\ last'.cloud.ret = <<>>
             /\ last'.cloud.calls = <<>>
             /\ ollamaModelsCache' = ollamaModelsCache
             /\ ollamaModelsCacheTime' =
                    IF last'.op = "models:list" THEN ollamaModelsCacheTime ELSE 0
             /\ lastFetch'.cloud.at = lastFetch.cloud.at]_vars

\* models:list without a key while the cloud cache holds entries fetched
\* half a TTL ago: nothing from the cloud, the cache as it was
C18_Witness ==
    /\ IsList
    /\ "ollama-cloud" \notin apiKeys
    /\ last.cloud = [ret |-> <<>>, calls |-> <<>>, log |-> "no-key"]
    /\ Len(ollamaModelsCache) > 0
    /\ now - ollamaModelsCacheTime = TickMs
    /\ ~lastFetch.cloud.reset

\* an entry a local fetch may keep: not a `:cloud` name, and of a family on
\* the allow-list
LocalEntryOk(m) ==
    /\ ~(Len(m.id) >= Len(CloudSuffix)
            /\ SubSeq(m.id, Len(m.id) - Len(CloudSuffix) + 1, Len(m.id)) = CloudSuffix)
    /\ supportsToolCalling(m.id)

\* C19: every entry of the local cache, every entry a local fetch returns
\* and every ollama-local entry of a models:list response has an id that
\* does not end with `:cloud` and is on the tool-calling allow-list, and is
\* available; a local model failing either test is in none of them.
C19_LocalEntriesFiltered ==
    /\ \A i \in 1..Len(ollamaLocalModelsCache) : LocalEntryOk(ollamaLocalModelsCache[i])
    /\ last.op \in {"models:list", "models:refreshOllamaLocal"} =>
           \A i \in 1..Len(last.local.ret) : LocalEntryOk(last.local.ret[i])
    /\ IsList =>
           \A i \in 1..Len(last.ret) :
               last.ret[i].provider = "ollama-local"
                   => LocalEntryOk(last.ret[i]) /\ last.ret[i].available

\* the local server listed gpt-oss:20b, gemma2:9b and qwen3:cloud; the
\* response and the cache hold gpt-oss:20b alone
C19_Witness ==
    /\ IsList
    /\ last.local.log = "success"
    /\ last.local.listed = 3
    /\ Ids(last.local.ret) = <<GptOss20b>>
    /\ Ids(ollamaLocalModelsCache) = <<GptOss20b>>
    /\ \A i \in 1..Len(last.ret) : last.ret[i].id \notin {Gemma2, Qwen3Cloud}

(***************************************************************************)
(* Properties of supportsToolCalling (SpecToolCalling)                     *)
(***************************************************************************)
IsClassify == last.op = "supportsToolCalling"

\* the number of characters of a name before its first `:`
BaseLen(name) ==
    CHOOSE n \in 0..Len(name) :
        /\ \A j \in 1..n : name[j] # ":"
        /\ n = Len(name) \/ name[n + 1] = ":"

\* a character with its case folded to lower
Folded(c) ==
    IF \E k \in 1..26 : UpperLetters[k] = c
    THEN LowerLetters[CHOOSE k \in 1..26 : UpperLetters[k] = c]
    ELSE c

\* the first characters of the name, case folded, spell the family
SpellsFamily(name, family) ==
    /\ Len(family) <= BaseLen(name)
    /\ \A i \in 1..Len(family) : Folded(name[i]) = family[i]

OnAllowList(name) ==
    \/ \E f \in ToolCallingPrefixes : SpellsFamily(name, f)
    \/ \E f \in ToolCallingExact : SpellsFamily(name, f) /\ BaseLen(name) = Len(f)

Llama32_3b == <<"l", "l", "a", "m", "a", "3", ".", "2", ":", "3", "b">>
Gemma2_9b == <<"g", "e", "m", "m", "a", "2", ":", "9", "b">>
FunctionGemmaLatest == <<"f", "u", "n", "c", "t", "i", "o", "n", "g", "e", "m", "m", "a", ":", "l", "a", "t", "e", "s", "t">>
Qwen25Coder7b == <<"q", "w", "e", "n", "2", ".", "5", "-", "c", "o", "d", "e", "r", ":", "7", "b">>

\* C20: supportsToolCalling(name) is true exactly when the lower-cased text
\* of name before its first `:` is on the allow-list of families (equal to
\* mistral or functiongemma, or starting with one of the other families);
\* it is true for llama3.2:3b, functiongemma:latest and qwen2.5-coder:7b and
\* false for gemma2:9b.
C20_AllowListExact ==
    IsClassify =>
        /\ last.ret = OnAllowList(last.modelName)
        /\ last.modelName \in {Llama32_3b, FunctionGemmaLatest, Qwen25Coder7b} => last.ret
        /\ last.modelName = Gemma2_9b => ~last.ret

\* QWEN2.5-CODER:a:b, upper case and with a second `:` in its tag, was
\* classified as tool capable
C20_Witness ==
    /\ IsClassify
    /\ last.modelName = <<"Q", "W", "E", "N", "2", ".", "5", "-", "C", "O", "D", "E", "R", ":", "a", ":", "b">>
    /\ last.ret

(***************************************************************************)
(* Independence of the two bindings (SpecWorkspace)                        *)
(***************************************************************************)
\* the non-empty workspacePath a stored row's metadata holds, if any
RowBinding(row) ==
    IF row = NoThread THEN Null
    ELSE IF row.metadata = Null THEN Null
    ELSE IF row.metadata.json.t # "object" THEN Null
    ELSE IF "workspacePath" \notin DOMAIN row.metadata.json.fields THEN Null
    ELSE LET v == row.metadata.json.fields["workspacePath"] IN
         IF v.kind = "string" /\ v.chars # <<>> THEN v ELSE Null

\* C22: workspace:get with a thread identifier returns what that thread's
\* metadata binds (null when it binds nothing), whatever the global setting
\* holds; workspace:set with a thread identifier leaves the global setting
\* as it is; workspace:set without one writes the global setting only: no
\* thread row changes, no watch changes and no watcher call is made.
C22_BindingsIndependent ==
    [][/\ (last'.op = "workspace:get" /\ last'.threadId \in ThreadIds /\ ~last'.threw)
            => last'.ret = RowBinding(threads[last'.threadId])
       /\ (last'.op = "workspace:set" /\ last'.threadId \in ThreadIds)
            => settings' = settings
       /\ (last'.op = "workspace:set" /\ last'.threadId = "")
            => /\ threads' = threads
               /\ watchers' = watchers
               /\ last'.calls = <<>>
               /\ settings' = (IF last'.path.kind = "string" /\ last'.path.chars # <<>>
                               THEN last'.path ELSE Null)]_vars

\* the global setting is /a and thread t1 has a row that binds nothing:
\* get("t1") answered null
C22_Witness ==
    /\ last.op = "workspace:get"
    /\ last.threadId = "t1"
    /\ settings = Str(PathA)
    /\ threads["t1"] # NoThread
    /\ ~last.threw
    /\ last.ret = Null

(***************************************************************************)
(* Reads and snapshots of an unbound thread (SpecWorkspace)                *)
(***************************************************************************)
IsDiskHandler ==
    last.op \in {"workspace:loadFromDisk", "workspace:readFile", "workspace:readBinaryFile"}

\* the row is missing, has no metadata, or has metadata whose workspacePath
\* is absent or null
Unbound(row) ==
    \/ row = NoThread
    \/ row.metadata = Null
    \/ /\ row.metadata # Null
       /\ row.metadata.json.t = "object"
       /\ \/ "workspacePath" \notin DOMAIN row.metadata.json.fields
          \/ row.metadata.json.fields["workspacePath"] = Null

\* C23: workspace:loadFromDisk, workspace:readFile and
\* workspace:readBinaryFile called for a thread with no row, no metadata, or
\* metadata whose workspacePath is absent or null return success false with
\* the NoWorkspace error (and files [] for loadFromDisk), throw nothing and
\* make no disk call.
C23_UnboundIsNoWorkspace ==
    (IsDiskHandler /\ Unbound(threads[last.threadId])) =>
        /\ ~last.threw
        /\ last.ret.success = FALSE
        /\ last.ret.error = NoWorkspaceError
        /\ last.fsOps = <<>>
        /\ last.op = "workspace:loadFromDisk" => last.ret = 
               [success |-> FALSE, error |-> NoWorkspaceError, files |-> <<>>]
        /\ last.op # "workspace:loadFromDisk" => last.ret =
               [success |-> FALSE, error |-> NoWorkspaceError]

\* a snapshot was asked for thread t2, which has no row: NoWorkspace, no
\* files, no disk call
C23_Witness ==
    /\ last.op = "workspace:loadFromDisk"
    /\ last.threadId = "t2"
    /\ threads["t2"] = NoThread
    /\ ~last.threw
    /\ last.ret = [success |-> FALSE, error |-> NoWorkspaceError, files |-> <<>>]
    /\ last.fsOps = <<>>

(***************************************************************************)
(* Failed snapshots (SpecSnapshot)                                         *)
(***************************************************************************)
\* the handler found a bound root and walked the disk
Walked == IsLoad /\ ~last.threw /\ last.fsOps # <<>>

\* the disk call on the node, or on a node the walk visits beneath it, fails
RECURSIVE FailsSomewhere(_)
FailsSomewhere(node) ==
    \/ ~node.ok
    \/ \E i \in 1..Len(node.entries) :
           /\ ~NoiseName(node.entries[i].name)
           /\ FailsSomewhere(node.entries[i])

\* C27: when a readdir or stat call of the walk fails, workspace:loadFromDisk
\* returns success false with the error's message and files []; no result
\* with success false carries an entry, and a walk without a failing call
\* succeeds.
C27_NoPartialSnapshot ==
    Walked =>
        /\ FailsSomewhere(request.disk) =>
               last.ret = [success |-> FALSE, error |-> DiskError, files |-> <<>>]
        /\ ~last.ret.success => last.ret.files = <<>>
        /\ ~FailsSomewhere(request.disk) => last.ret.success

\* the root lists r, then s whose stat fails: r had been collected, the
\* result carries no entry
C27_Witness ==
    /\ Walked
    /\ request.disk.entries = <<FileNode(ReadmeName, TRUE), FileNode(SrcName, FALSE)>>
    /\ Len(last.fsOps) = 3
    /\ last.ret = [success |-> FALSE, error |-> DiskError, files |-> <<>>]

(***************************************************************************)
(* Shape of a successful snapshot (SpecSnapshot)                           *)
(***************************************************************************)
\* entry path q lies beneath directory path p
Beneath(q, p) ==
    /\ Len(q) > Len(p) + 1
    /\ SubSeq(q, 1, Len(p) + 1) = p \o <<Slash>>

\* C28: in a successful workspace:loadFromDisk result every directory entry
\* comes earlier in the list than each entry beneath it, every path starts
\* with `/` and has no `..` segment, directory entries carry path and is_dir
\* only, and every other entry carries size and modified_at as well.
C28_SnapshotShape ==
    LoadSucceeded =>
        LET files == last.ret.files IN
        /\ \A i \in 1..Len(files) :
               /\ Len(files[i].path) > 1
               /\ files[i].path[1] = Slash
               /\ \A k \in 1..Len(Segments(files[i].path)) :
                      Segments(files[i].path)[k] # DotDotSeg
               /\ files[i].is_dir => DOMAIN files[i] = {"path", "is_dir"}
               /\ ~files[i].is_dir =>
                      DOMAIN files[i] = {"path", "is_dir", "size", "modified_at"}
        /\ \A i, j \in 1..Len(files) :
               (files[i].is_dir /\ Beneath(files[j].path, files[i].path)) => i < j

\* the root lists directory s holding file r, then file r: the result is
\* /s, /s/r, /r
C28_Witness ==
    /\ LoadSucceeded
    /\ Len(last.ret.files) = 3
    /\ last.ret.files[1] = DirEntry(SrcName)
    /\ last.ret.files[2] = FileEntry(SrcName \o <<Slash>> \o ReadmeName)
    /\ last.ret.files[3] = FileEntry(ReadmeName)

(***************************************************************************)
(* Snapshot paths read back (SpecListing)                                  *)
(***************************************************************************)
IsStatOp(o) == o.call = "stat"

IsFileEntry(e) == ~e.is_dir

\* C29: when workspace:readFile or workspace:readBinaryFile is given the
\* path of the k-th file entry of the snapshot just returned for the same
\* thread, the containment check passes and the handler's stat (and read)
\* is made on the disk path the snapshot's k-th stat call was made on.
C29_ListedPathReadsBack ==
    [][(last.op = "workspace:loadFromDisk"
          /\ last'.op \in {"workspace:readFile", "workspace:readBinaryFile"})
       => LET stats == SelectSeq(last.fsOps, IsStatOp)
              listed == SelectSeq(last.ret.files, IsFileEntry)
          IN  /\ Len(stats) = Len(listed)
              /\ ~last'.threw
              /\ last'.ret # [success |-> FALSE, error |-> AccessDeniedError]
              /\ \A k \in 1..Len(listed) :
                     last'.filePath = listed[k].path =>
                         /\ last'.fsOps # <<>>
                         /\ last'.fsOps[1] = stats[k]
                         /\ last'.ret.success => last'.ret.content.of = stats[k].path]_vars

\* the root is `/a/`; the snapshot listed /s/s/r, and the read of that
\* path returned the content of /a/s/s/r
C29_Witness ==
    /\ last.op = "workspace:readFile"
    /\ threads[ReadThread].metadata.json.fields["workspacePath"] = Str(<<"/", "a", "/">>)
    /\ last.filePath = <<"/", "s", "/", "s", "/", "r">>
    /\ ~last.threw
    /\ last.ret.success
    /\ last.ret.content.of = <<"/", "a", "/", "s", "/", "s", "/", "r">>

(***************************************************************************)
(* Binding and watch under overlapping calls (SpecBinding)                 *)
(***************************************************************************)
\* no call is in flight
Quiet == \A c \in Slots : pending[c].pc = "idle"

\* thread T is watched exactly when its row binds a path, and then the
\* bound path is the one root under watch
Agree(T) ==
    /\ watchers[T] = NoWatch <=> RowBinding(threads[T]) = Null
    /\ watchers[T] # NoWatch => watchers[T] = <<RowBinding(threads[T])>>

Completes == \E c \in Slots : pending[c].pc # "idle" /\ pending'[c].pc = "idle"

C21_LocalDiscoveryReturns ==
    \A c \in Slots :
        (pending[c].pc = "run" /\ InFlight(pending[c].local)) ~> (pending[c].pc = "idle")

(***************************************************************************)
(* Completion order of the two fetches of models:list (SpecDiscovery)      *)
(***************************************************************************)
ListReturned == last.op = "models:list"

Marked(models) ==
    [i \in 1..Len(models) |->
        [models[i] EXCEPT !.available = Available(models[i], apiKeys)]]

\* C24: the response of models:list is the retained static entries, then the
\* cloud fetch's entries, then the local fetch's entries, whichever of the
\* two fetches settled first.
C24_OrderOfCompletionIrrelevant ==
    ListReturned =>
        last.ret = Marked(StaticModels(last.cloud, last.local))
                       \o Marked(last.cloud) \o Marked(last.local)

\* the local fetch settled before the cloud fetch, each with one entry
C24_Witness ==
    /\ ListReturned
    /\ last.order = <<"local", "cloud">>
    /\ Len(last.cloud) = 1 /\ Len(last.local) = 1
    /\ last.ret[Len(last.ret) - 1].ollamaMode = "cloud"
    /\ last.ret[Len(last.ret)].ollamaMode = "local"

(***************************************************************************)
(* Overlapping fetches of one source (SpecDiscovery)                       *)
(***************************************************************************)
Sources == {"cloud", "local"}

FetchingSlots(source) ==
    {c \in Slots : pending[c].pc = "run" /\ InFlight(pending[c][source])}

\* C25: for each source at most one handler call has a fetch suspended on the
\* network at any time.
C25_OneFetchPerSource ==
    \A source \in Sources : Cardinality(FetchingSlots(source)) <= 1

(***************************************************************************)
(* What a settling fetch does to its cache (SpecDiscovery)                 *)
(***************************************************************************)
SourceCache(source) ==
    IF source = "cloud" THEN cloudCacheVars ELSE localCacheVars

\* the fetch of `source` in slot c settles in this step
Settles(c, source) ==
    /\ pending[c].pc = "run" /\ InFlight(pending[c][source])
    /\ pending'[c].pc = "run" /\ pending'[c][source].at = "done"

\* C30: a fetch that settles with a list of models read from the body
\* replaces its source's cache by that list and the timestamp by the time the
\* fetch began; a fetch that settles any other way (rejected, non-2xx status,
\* timeout, body that is not JSON, body with none of the accepted shapes,
\* entry without a name) leaves both as they were.
C30_OnlySuccessWritesCache ==
    [][\A c \in Slots, source \in Sources :
          Settles(c, source) =>
              IF last'.answer = "models"
              THEN SourceCache(source)' = <<last'.ret, pending[c][source].now>>
              ELSE SourceCache(source)' = SourceCache(source)]_vars

====
